---- MODULE Spec2Model ----
(***************************************************************************)
(* A model of the Tetris simulation core: the piece catalog and factory,   *)
(* the placement validator and the rotation (lib/tetrominos.ts) and the    *)
(* action reducer, the lock & scoring step, the line-clear loop and the    *)
(* shadow projector (lib/game.ts).                                         *)
(*                                                                         *)
(* Arrays are sequences: a JavaScript index i is the TLA+ index i + 1.     *)
(* A board is a sequence of BOARD_HEIGHT rows of BOARD_WIDTH cells, a      *)
(* shape a sequence of rows of 0/1 flags.  Coordinates (position.x,        *)
(* position.y, boardX, boardY, loop counters) keep their JavaScript,       *)
(* 0-based values.  Math.random is the nondeterministic choice of a        *)
(* sequence of drawn piece types, handed to the reducer as `rnd`: the      *)
(* k-th call of randomTetromino() within one reducer call draws rnd[k].    *)
(***************************************************************************)
EXTENDS Integers, Sequences, FiniteSets, TLC

VARIABLES
    state,   \* App's gameState: the GameState the driver holds
    prev,    \* history: the GameState the last action was applied to
    action,  \* history: the type of the last action dispatched ("INIT": none)
    before,  \* history: `prev` and `action` as they were one action earlier
    steps    \* number of actions dispatched so far in this run

vars == <<state, prev, action, before, steps>>

-----------------------------------------------------------------------------
(* Bounds of the model *)

\* Actions dispatched after the initial state of a run.
MaxSteps == 2

\* Number of distinct outcomes of Math.random that are explored.
MaxRandom == 1

\* The most complete rows a board handed to clearLines on its own has.
MaxFullRows == 3

\* How far outside the board, on each side, the positions handed to
\* isValidPosition on its own reach.
MaxOutside == 3

\* getDropSpeed is applied to the levels 1..MaxLevel.
MaxLevel == 60

\* rotateTetromino is applied to pieces up to MaxShift columns and rows away
\* from their spawn position.
MaxShift == 1

\* Up to MaxTurns rotations in a row take effect.
MaxTurns == 4

\* The app takes up to MaxEvents events, and the game timer counts to MaxTime.
MaxEvents == 2

MaxTime == 3

-----------------------------------------------------------------------------
(* lib/game.ts: constants *)

BOARD_WIDTH == 10

BOARD_HEIGHT == 20

\* POINTS_PER_LINE[n] of the source is POINTS_PER_LINE[n + 1] here.
POINTS_PER_LINE_noTetris == <<0, 40, 100, 300>>

POINTS_PER_LINE == <<0, 40, 100, 300, 1200>>

\* The value of `undefined * level`, and of any sum with it.
NaN == -1

\* null, for currentPiece / nextPiece (a Tetromino) and heldPiece (a type).
NullPiece == [type |-> "null", shape |-> <<>>, position |-> [x |-> 0, y |-> 0], rotation |-> 0]

NullType == "null"

IsNull(piece) == piece.type = "null"

\* The array f[1], ..., f[n], as a tuple.
Array(f, n) == SubSeq(f, 1, n)

-----------------------------------------------------------------------------
(* lib/tetrominos.ts *)

TETROMINOS(type) ==
    CASE type = "I" -> << <<0, 0, 0, 0>>,
                          <<1, 1, 1, 1>>,
                          <<0, 0, 0, 0>>,
                          <<0, 0, 0, 0>> >>
      [] type = "J" -> << <<1, 0, 0>>,
                          <<1, 1, 1>>,
                          <<0, 0, 0>> >>
      [] type = "L" -> << <<0, 0, 1>>,
                          <<1, 1, 1>>,
                          <<0, 0, 0>> >>
      [] type = "O" -> << <<1, 1>>,
                          <<1, 1>> >>
      [] type = "S" -> << <<0, 1, 1>>,
                          <<1, 1, 0>>,
                          <<0, 0, 0>> >>
      [] type = "T" -> << <<0, 1, 0>>,
                          <<1, 1, 1>>,
                          <<0, 0, 0>> >>
      [] type = "Z" -> << <<1, 1, 0>>,
                          <<0, 1, 1>>,
                          <<0, 0, 0>> >>

\* The `types` array of randomTetromino.
types == <<"I", "J", "L", "O", "S", "T", "Z">>

TetrominoTypes == {types[i] : i \in 1..Len(types)}

\* randomTetromino(specificType), and randomTetromino() when Math.random
\* selects `type`.
randomTetromino(type) ==
    [type     |-> type,
     shape    |-> TETROMINOS(type),
     position |-> [x |-> IF type = "O" THEN 4 ELSE 3, y |-> 0],
     rotation |-> 0]

\* rotated[x][size - 1 - y] = shape[y][x], i.e. with 1-based r, c:
\* rotated[r][c] = shape[size - c + 1][r].
rotateTetromino_counterClockwise(tetromino) ==
    LET shape == tetromino.shape
        size  == Len(shape)
    IN  IF tetromino.type = "O"
        THEN shape
        ELSE Array([r \in 1..size |->
                      Array([c \in 1..size |-> shape[c][size - r + 1]], size)], size)

rotateTetromino(tetromino) ==
    LET shape == tetromino.shape
        size  == Len(shape)
    IN  IF tetromino.type = "O"
        THEN shape
        ELSE Array([r \in 1..size |->
                      Array([c \in 1..size |-> shape[size - c + 1][r]], size)], size)

isValidPosition_boundingBox(tetromino, board, position, shape) ==
    \A row \in 1..Len(shape) : \A col \in 1..Len(shape[row]) :
        LET boardX == position.x + (col - 1)
            boardY == position.y + (row - 1)
        IN  /\ ~ ( \/ boardX < 0
                   \/ boardX >= Len(board[1])
                   \/ boardY < 0
                   \/ boardY >= Len(board) )
            /\ (shape[row][col] = 0 \/ board[boardY + 1][boardX + 1] = "empty")

isValidPosition_openTop(tetromino, board, position, shape) ==
    \A row \in 1..Len(shape) : \A col \in 1..Len(shape[row]) :
        \/ shape[row][col] = 0
        \/ LET boardX == position.x + (col - 1)
               boardY == position.y + (row - 1)
           IN  /\ ~ ( \/ boardX < 0
                      \/ boardX >= Len(board[1])
                      \/ boardY >= Len(board) )
               /\ (boardY < 0 \/ board[boardY + 1][boardX + 1] = "empty")

isValidPosition_noRightBound(tetromino, board, position, shape) ==
    \A row \in 1..Len(shape) : \A col \in 1..Len(shape[row]) :
        \/ shape[row][col] = 0
        \/ LET boardX == position.x + (col - 1)
               boardY == position.y + (row - 1)
           IN  /\ ~ ( \/ boardX < 0
                      \/ boardY < 0
                      \/ boardY >= Len(board) )
               /\ (boardX >= Len(board[1]) \/ board[boardY + 1][boardX + 1] = "empty")

\* The loop returns false at the first occupied cell that is out of bounds
\* or on a non-empty board cell, and true when there is none.
isValidPosition(tetromino, board, position, shape) ==
    \A row \in 1..Len(shape) : \A col \in 1..Len(shape[row]) :
        \/ shape[row][col] = 0
        \/ LET boardX == position.x + (col - 1)
               boardY == position.y + (row - 1)
           IN  /\ ~ ( \/ boardX < 0
                      \/ boardX >= Len(board[1])
                      \/ boardY < 0
                      \/ boardY >= Len(board) )
               /\ board[boardY + 1][boardX + 1] = "empty"

-----------------------------------------------------------------------------
(* lib/game.ts *)

EmptyRow == Array([x \in 1..BOARD_WIDTH |-> "empty"], BOARD_WIDTH)

createEmptyBoard == Array([y \in 1..BOARD_HEIGHT |-> EmptyRow], BOARD_HEIGHT)

\* The calls of randomTetromino() are made in the order nextPiece,
\* currentPiece, nextPieces[0..2].
initGameState(rnd) ==
    [board        |-> createEmptyBoard,
     currentPiece |-> randomTetromino(rnd[2]),
     nextPiece    |-> randomTetromino(rnd[1]),
     nextPieces   |-> <<randomTetromino(rnd[3]),
                        randomTetromino(rnd[4]),
                        randomTetromino(rnd[5])>>,
     heldPiece    |-> NullType,
     score        |-> 0,
     level        |-> 1,
     lines        |-> 0,
     gameOver     |-> FALSE,
     isPaused     |-> FALSE]

Max(a, b) == IF a >= b THEN a ELSE b

getDropSpeed_noFloor(level) == 1000 - ((level - 1) * 100)

getDropSpeed(level) == Max(100, 1000 - ((level - 1) * 100))

\* The for loop of clearLines at index y: a full row is spliced out and an
\* empty row unshifted, and the same index is examined again (y++ undone by
\* the loop's y--).
RECURSIVE clearLinesLoop_noRecheck(_, _, _)
clearLinesLoop_noRecheck(clearedBoard, y, linesCleared) ==
    IF y < 0
    THEN [clearedBoard |-> clearedBoard, linesCleared |-> linesCleared]
    ELSE IF \A x \in 1..Len(clearedBoard[y + 1]) : clearedBoard[y + 1][x] # "empty"
         THEN clearLinesLoop_noRecheck(<<EmptyRow>>
                                         \o SubSeq(clearedBoard, 1, y)
                                         \o SubSeq(clearedBoard, y + 2, Len(clearedBoard)),
                                       y - 1, linesCleared + 1)
         ELSE clearLinesLoop_noRecheck(clearedBoard, y - 1, linesCleared)

RECURSIVE clearLinesLoop_stopAtFirst(_, _, _)
clearLinesLoop_stopAtFirst(clearedBoard, y, linesCleared) ==
    IF y < 0
    THEN [clearedBoard |-> clearedBoard, linesCleared |-> linesCleared]
    ELSE IF \A x \in 1..Len(clearedBoard[y + 1]) : clearedBoard[y + 1][x] # "empty"
         THEN [clearedBoard |-> <<EmptyRow>>
                                  \o SubSeq(clearedBoard, 1, y)
                                  \o SubSeq(clearedBoard, y + 2, Len(clearedBoard)),
               linesCleared |-> linesCleared + 1]
         ELSE clearLinesLoop_stopAtFirst(clearedBoard, y - 1, linesCleared)

RECURSIVE clearLinesLoop(_, _, _)
clearLinesLoop(clearedBoard, y, linesCleared) ==
    IF y < 0
    THEN [clearedBoard |-> clearedBoard, linesCleared |-> linesCleared]
    ELSE IF \A x \in 1..Len(clearedBoard[y + 1]) : clearedBoard[y + 1][x] # "empty"
         THEN clearLinesLoop(<<EmptyRow>>
                               \o SubSeq(clearedBoard, 1, y)
                               \o SubSeq(clearedBoard, y + 2, Len(clearedBoard)),
                             y, linesCleared + 1)
         ELSE clearLinesLoop(clearedBoard, y - 1, linesCleared)

clearLines(board) == clearLinesLoop(board, BOARD_HEIGHT - 1, 0)

\* Whether the lock step's loops visit a non-zero shape cell whose board
\* coordinates are (boardY, boardX).
Stamps(piece, boardY, boardX) ==
    LET y == boardY - piece.position.y
        x == boardX - piece.position.x
    IN  /\ y + 1 \in DOMAIN piece.shape
        /\ x + 1 \in DOMAIN piece.shape[y + 1]
        /\ piece.shape[y + 1][x + 1] # 0

\* Whether one of those cells lies above the board (boardY < 0).
StampsAbove(piece) ==
    \E y \in DOMAIN piece.shape : \E x \in DOMAIN piece.shape[y] :
        piece.shape[y][x] # 0 /\ piece.position.y + (y - 1) < 0

\* POINTS_PER_LINE[linesCleared] * level + score; an index past the array
\* reads undefined, and the arithmetic gives NaN.
AddScore_lockBonus(score, linesCleared, level) ==
    IF linesCleared + 1 \in DOMAIN POINTS_PER_LINE /\ score # NaN
    THEN score + POINTS_PER_LINE[linesCleared + 1] * level + 1
    ELSE NaN

AddScore(score, linesCleared, level) ==
    IF linesCleared + 1 \in DOMAIN POINTS_PER_LINE /\ score # NaN
    THEN score + POINTS_PER_LINE[linesCleared + 1] * level
    ELSE NaN

\* Math.floor(newLines / 10) + 1
LevelFor_noFirstLevel(newLines) == newLines \div 10

LevelFor(newLines) == (newLines \div 10) + 1

\* The queue shift shared by the lock step, NEW_PIECE and the first HOLD:
\* [nextPiece1, ...remainingPieces] = nextPieces; [...remainingPieces, fresh].
\* Destructuring an empty array gives undefined and an empty rest.
QueueHead(nextPieces) == IF nextPieces = <<>> THEN NullPiece ELSE Head(nextPieces)

ShiftQueue_unshift(nextPieces, type) ==
    <<randomTetromino(type)>>
        \o (IF nextPieces = <<>> THEN <<>> ELSE SubSeq(nextPieces, 1, Len(nextPieces) - 1))

ShiftQueue_noAppend(nextPieces, type) ==
    IF nextPieces = <<>> THEN <<>> ELSE Tail(nextPieces)

ShiftQueue(nextPieces, type) ==
    (IF nextPieces = <<>> THEN <<>> ELSE Tail(nextPieces)) \o <<randomTetromino(type)>>

lockPieceAndContinue_scoreAtNewLevel(s, rnd) ==
    IF IsNull(s.currentPiece) THEN s
    ELSE
    LET type == s.currentPiece.type
    IN  IF StampsAbove(s.currentPiece)
        THEN [s EXCEPT !.gameOver = TRUE]
        ELSE
        LET newBoard == Array([y \in 1..Len(s.board) |->
                           Array([x \in 1..Len(s.board[y]) |->
                                     IF Stamps(s.currentPiece, y - 1, x - 1)
                                     THEN type ELSE s.board[y][x]],
                                 Len(s.board[y]))],
                           Len(s.board))
            cleared  == clearLines(newBoard)
            newLines == s.lines + cleared.linesCleared
            newLevel == LevelFor(newLines)
            newScore == AddScore(s.score, cleared.linesCleared, newLevel)
            isGameOver == \E x \in 1..Len(cleared.clearedBoard[1]) :
                              cleared.clearedBoard[1][x] # "empty"
        IN  [s EXCEPT !.board        = cleared.clearedBoard,
                      !.currentPiece = s.nextPiece,
                      !.nextPiece    = QueueHead(s.nextPieces),
                      !.nextPieces   = ShiftQueue(s.nextPieces, rnd[1]),
                      !.score        = newScore,
                      !.lines        = newLines,
                      !.level        = newLevel,
                      !.gameOver     = isGameOver \/ s.gameOver]

lockPieceAndContinue_topOutBeforeClear(s, rnd) ==
    IF IsNull(s.currentPiece) THEN s
    ELSE
    LET type == s.currentPiece.type
    IN  IF StampsAbove(s.currentPiece)
        THEN [s EXCEPT !.gameOver = TRUE]
        ELSE
        LET newBoard == Array([y \in 1..Len(s.board) |->
                           Array([x \in 1..Len(s.board[y]) |->
                                     IF Stamps(s.currentPiece, y - 1, x - 1)
                                     THEN type ELSE s.board[y][x]],
                                 Len(s.board[y]))],
                           Len(s.board))
            cleared  == clearLines(newBoard)
            newScore == AddScore(s.score, cleared.linesCleared, s.level)
            newLines == s.lines + cleared.linesCleared
            newLevel == LevelFor(newLines)
            isGameOver == \E x \in 1..Len(newBoard[1]) : newBoard[1][x] # "empty"
        IN  [s EXCEPT !.board        = cleared.clearedBoard,
                      !.currentPiece = s.nextPiece,
                      !.nextPiece    = QueueHead(s.nextPieces),
                      !.nextPieces   = ShiftQueue(s.nextPieces, rnd[1]),
                      !.score        = newScore,
                      !.lines        = newLines,
                      !.level        = newLevel,
                      !.gameOver     = isGameOver \/ s.gameOver]

lockPieceAndContinue_aboveContinues(s, rnd) ==
    IF IsNull(s.currentPiece) THEN s
    ELSE
    LET type == s.currentPiece.type
    IN
        LET newBoard == Array([y \in 1..Len(s.board) |->
                           Array([x \in 1..Len(s.board[y]) |->
                                     IF Stamps(s.currentPiece, y - 1, x - 1)
                                     THEN type ELSE s.board[y][x]],
                                 Len(s.board[y]))],
                           Len(s.board))
            cleared  == clearLines(newBoard)
            newScore == AddScore(s.score, cleared.linesCleared, s.level)
            newLines == s.lines + cleared.linesCleared
            newLevel == LevelFor(newLines)
            isGameOver == \E x \in 1..Len(cleared.clearedBoard[1]) :
                              cleared.clearedBoard[1][x] # "empty"
        IN  [s EXCEPT !.board        = cleared.clearedBoard,
                      !.currentPiece = s.nextPiece,
                      !.nextPiece    = QueueHead(s.nextPieces),
                      !.nextPieces   = ShiftQueue(s.nextPieces, rnd[1]),
                      !.score        = newScore,
                      !.lines        = newLines,
                      !.level        = newLevel,
                      !.gameOver     = TRUE]

lockPieceAndContinue_noTopOut(s, rnd) ==
    IF IsNull(s.currentPiece) THEN s
    ELSE
    LET type == s.currentPiece.type
    IN  IF StampsAbove(s.currentPiece)
        THEN [s EXCEPT !.gameOver = TRUE]
        ELSE
        LET newBoard == Array([y \in 1..Len(s.board) |->
                           Array([x \in 1..Len(s.board[y]) |->
                                     IF Stamps(s.currentPiece, y - 1, x - 1)
                                     THEN type ELSE s.board[y][x]],
                                 Len(s.board[y]))],
                           Len(s.board))
            cleared  == clearLines(newBoard)
            newScore == AddScore(s.score, cleared.linesCleared, s.level)
            newLines == s.lines + cleared.linesCleared
            newLevel == LevelFor(newLines)
            isGameOver == FALSE
        IN  [s EXCEPT !.board        = cleared.clearedBoard,
                      !.currentPiece = s.nextPiece,
                      !.nextPiece    = QueueHead(s.nextPieces),
                      !.nextPieces   = ShiftQueue(s.nextPieces, rnd[1]),
                      !.score        = newScore,
                      !.lines        = newLines,
                      !.level        = newLevel,
                      !.gameOver     = isGameOver \/ s.gameOver]

lockPieceAndContinue(s, rnd) ==
    IF IsNull(s.currentPiece) THEN s
    ELSE
    LET type == s.currentPiece.type
    IN  IF StampsAbove(s.currentPiece)
        THEN [s EXCEPT !.gameOver = TRUE]
        ELSE
        LET newBoard == Array([y \in 1..Len(s.board) |->
                           Array([x \in 1..Len(s.board[y]) |->
                                     IF Stamps(s.currentPiece, y - 1, x - 1)
                                     THEN type ELSE s.board[y][x]],
                                 Len(s.board[y]))],
                           Len(s.board))
            cleared  == clearLines(newBoard)
            newScore == AddScore(s.score, cleared.linesCleared, s.level)
            newLines == s.lines + cleared.linesCleared
            newLevel == LevelFor(newLines)
            isGameOver == \E x \in 1..Len(cleared.clearedBoard[1]) :
                              cleared.clearedBoard[1][x] # "empty"
        IN  [s EXCEPT !.board        = cleared.clearedBoard,
                      !.currentPiece = s.nextPiece,
                      !.nextPiece    = QueueHead(s.nextPieces),
                      !.nextPieces   = ShiftQueue(s.nextPieces, rnd[1]),
                      !.score        = newScore,
                      !.lines        = newLines,
                      !.level        = newLevel,
                      !.gameOver     = isGameOver \/ s.gameOver]

\* The while loops of HARD_DROP and calculateShadowPosition.
RECURSIVE HardDropY_overshoot(_, _, _)
HardDropY_overshoot(piece, board, newY) ==
    IF isValidPosition(piece, board, [piece.position EXCEPT !.y = newY], piece.shape)
    THEN HardDropY_overshoot(piece, board, newY + 1)
    ELSE newY

RECURSIVE HardDropY(_, _, _)
HardDropY(piece, board, newY) ==
    IF isValidPosition(piece, board, [piece.position EXCEPT !.y = newY + 1], piece.shape)
    THEN HardDropY(piece, board, newY + 1)
    ELSE newY

ShadowY_oneRow(piece, board, shadowY) ==
    IF isValidPosition(piece, board, [piece.position EXCEPT !.y = shadowY + 1], piece.shape)
    THEN shadowY + 1
    ELSE shadowY

RECURSIVE ShadowY(_, _, _)
ShadowY(piece, board, shadowY) ==
    IF isValidPosition(piece, board, [piece.position EXCEPT !.y = shadowY + 1], piece.shape)
    THEN ShadowY(piece, board, shadowY + 1)
    ELSE shadowY

calculateShadowPosition(s) ==
    IF IsNull(s.currentPiece) THEN NullPiece
    ELSE [s.currentPiece EXCEPT
            !.position.y = ShadowY(s.currentPiece, s.board, s.currentPiece.position.y)]

-----------------------------------------------------------------------------
(* gameReducer: one operator per case of the switch *)

WithPosition(s, position) == [s EXCEPT !.currentPiece.position = position]

MOVE_LEFT_validatesCurrent(s) ==
    IF IsNull(s.currentPiece) THEN s
    ELSE LET newPosition == [s.currentPiece.position EXCEPT !.x = @ - 1]
         IN  IF isValidPosition(s.currentPiece, s.board, s.currentPiece.position,
                                s.currentPiece.shape)
             THEN WithPosition(s, newPosition)
             ELSE s

MOVE_LEFT(s) ==
    IF IsNull(s.currentPiece) THEN s
    ELSE LET newPosition == [s.currentPiece.position EXCEPT !.x = @ - 1]
         IN  IF isValidPosition(s.currentPiece, s.board, newPosition, s.currentPiece.shape)
             THEN WithPosition(s, newPosition)
             ELSE s

MOVE_RIGHT(s) ==
    IF IsNull(s.currentPiece) THEN s
    ELSE LET newPosition == [s.currentPiece.position EXCEPT !.x = @ + 1]
         IN  IF isValidPosition(s.currentPiece, s.board, newPosition, s.currentPiece.shape)
             THEN WithPosition(s, newPosition)
             ELSE s

MOVE_DOWN_validatesCurrent(s, rnd) ==
    IF IsNull(s.currentPiece) THEN s
    ELSE LET newPosition == [s.currentPiece.position EXCEPT !.y = @ + 1]
         IN  IF isValidPosition(s.currentPiece, s.board, s.currentPiece.position,
                                s.currentPiece.shape)
             THEN WithPosition(s, newPosition)
             ELSE lockPieceAndContinue(s, rnd)

MOVE_DOWN(s, rnd) ==
    IF IsNull(s.currentPiece) THEN s
    ELSE LET newPosition == [s.currentPiece.position EXCEPT !.y = @ + 1]
         IN  IF isValidPosition(s.currentPiece, s.board, newPosition, s.currentPiece.shape)
             THEN WithPosition(s, newPosition)
             ELSE lockPieceAndContinue(s, rnd)

\* The x-offsets of the wall kick, tried in this order after offset 0.
kicks_leftFirst == <<-1, 1, -2, 2>>

kicks == <<1, -1, 2, -2>>

ROTATE_rejectedEndsGame(s) ==
    IF IsNull(s.currentPiece) THEN s
    ELSE
    LET piece        == s.currentPiece
        rotatedShape == rotateTetromino(piece)
        kicked(i)    == [piece.position EXCEPT !.x = @ + kicks[i]]
        accepted     == {i \in 1..Len(kicks) :
                           isValidPosition(piece, s.board, kicked(i), rotatedShape)}
        first        == CHOOSE i \in accepted : \A j \in accepted : i <= j
    IN  IF isValidPosition(piece, s.board, piece.position, rotatedShape)
        THEN [s EXCEPT !.currentPiece.shape    = rotatedShape,
                       !.currentPiece.rotation = (piece.rotation + 1) % 4]
        ELSE IF accepted # {}
        THEN [s EXCEPT !.currentPiece.shape    = rotatedShape,
                       !.currentPiece.position = kicked(first),
                       !.currentPiece.rotation = (piece.rotation + 1) % 4]
        ELSE [s EXCEPT !.gameOver = TRUE]

ROTATE_noWrap(s) ==
    IF IsNull(s.currentPiece) THEN s
    ELSE
    LET piece        == s.currentPiece
        rotatedShape == rotateTetromino(piece)
        kicked(i)    == [piece.position EXCEPT !.x = @ + kicks[i]]
        accepted     == {i \in 1..Len(kicks) :
                           isValidPosition(piece, s.board, kicked(i), rotatedShape)}
        first        == CHOOSE i \in accepted : \A j \in accepted : i <= j
    IN  IF isValidPosition(piece, s.board, piece.position, rotatedShape)
        THEN [s EXCEPT !.currentPiece.shape    = rotatedShape,
                       !.currentPiece.rotation = piece.rotation + 1]
        ELSE IF accepted # {}
        THEN [s EXCEPT !.currentPiece.shape    = rotatedShape,
                       !.currentPiece.position = kicked(first),
                       !.currentPiece.rotation = piece.rotation + 1]
        ELSE s

ROTATE(s) ==
    IF IsNull(s.currentPiece) THEN s
    ELSE
    LET piece        == s.currentPiece
        rotatedShape == rotateTetromino(piece)
        kicked(i)    == [piece.position EXCEPT !.x = @ + kicks[i]]
        accepted     == {i \in 1..Len(kicks) :
                           isValidPosition(piece, s.board, kicked(i), rotatedShape)}
        first        == CHOOSE i \in accepted : \A j \in accepted : i <= j
    IN  IF isValidPosition(piece, s.board, piece.position, rotatedShape)
        THEN [s EXCEPT !.currentPiece.shape    = rotatedShape,
                       !.currentPiece.rotation = (piece.rotation + 1) % 4]
        ELSE IF accepted # {}
        THEN [s EXCEPT !.currentPiece.shape    = rotatedShape,
                       !.currentPiece.position = kicked(first),
                       !.currentPiece.rotation = (piece.rotation + 1) % 4]
        ELSE s

HARD_DROP_locksInPlace(s, rnd) ==
    IF IsNull(s.currentPiece) THEN s
    ELSE lockPieceAndContinue(s, rnd)

HARD_DROP(s, rnd) ==
    IF IsNull(s.currentPiece) THEN s
    ELSE LET newY == HardDropY(s.currentPiece, s.board, s.currentPiece.position.y)
         IN  lockPieceAndContinue([s EXCEPT !.currentPiece.position.y = newY], rnd)

GAME_OVER_clearsPiece(s) == [s EXCEPT !.gameOver = TRUE, !.currentPiece = NullPiece]

GAME_OVER(s) == [s EXCEPT !.gameOver = TRUE]

NEW_PIECE_locks(s, rnd) == lockPieceAndContinue(s, rnd)

NEW_PIECE(s, rnd) ==
    [s EXCEPT !.currentPiece = s.nextPiece,
              !.nextPiece    = QueueHead(s.nextPieces),
              !.nextPieces   = ShiftQueue(s.nextPieces, rnd[1])]

HOLD_firstKeepsQueue(s, rnd) ==
    IF IsNull(s.currentPiece) \/ s.gameOver THEN s
    ELSE
    LET currentType == s.currentPiece.type
    IN  IF s.heldPiece = NullType
        THEN [s EXCEPT !.heldPiece    = currentType,
                       !.currentPiece = s.nextPiece]
        ELSE
        LET tempHeld == s.heldPiece
            newPiece == [randomTetromino(tempHeld) EXCEPT
                           !.position = [x |-> IF tempHeld = "O" THEN 4 ELSE 3, y |-> 0]]
        IN  IF ~ isValidPosition(newPiece, s.board, newPiece.position, newPiece.shape)
            THEN [s EXCEPT !.gameOver = TRUE]
            ELSE [s EXCEPT !.heldPiece    = currentType,
                           !.currentPiece = newPiece,
                           !.nextPieces   = s.nextPieces]

HOLD_swapAtColumn3(s, rnd) ==
    IF IsNull(s.currentPiece) \/ s.gameOver THEN s
    ELSE
    LET currentType == s.currentPiece.type
    IN  IF s.heldPiece = NullType
        THEN [s EXCEPT !.heldPiece    = currentType,
                       !.currentPiece = s.nextPiece,
                       !.nextPiece    = QueueHead(s.nextPieces),
                       !.nextPieces   = ShiftQueue(s.nextPieces, rnd[1])]
        ELSE
        LET tempHeld == s.heldPiece
            newPiece == [randomTetromino(tempHeld) EXCEPT
                           !.position = [x |-> 3, y |-> 0]]
        IN  IF ~ isValidPosition(newPiece, s.board, newPiece.position, newPiece.shape)
            THEN [s EXCEPT !.gameOver = TRUE]
            ELSE [s EXCEPT !.heldPiece    = currentType,
                           !.currentPiece = newPiece,
                           !.nextPieces   = s.nextPieces]

HOLD_swapUnchecked(s, rnd) ==
    IF IsNull(s.currentPiece) \/ s.gameOver THEN s
    ELSE
    LET currentType == s.currentPiece.type
    IN  IF s.heldPiece = NullType
        THEN [s EXCEPT !.heldPiece    = currentType,
                       !.currentPiece = s.nextPiece,
                       !.nextPiece    = QueueHead(s.nextPieces),
                       !.nextPieces   = ShiftQueue(s.nextPieces, rnd[1])]
        ELSE
        LET tempHeld == s.heldPiece
            newPiece == [randomTetromino(tempHeld) EXCEPT
                           !.position = [x |-> IF tempHeld = "O" THEN 4 ELSE 3, y |-> 0]]
        IN  IF FALSE
            THEN [s EXCEPT !.gameOver = TRUE]
            ELSE [s EXCEPT !.heldPiece    = currentType,
                           !.currentPiece = newPiece,
                           !.nextPieces   = s.nextPieces]

HOLD_oncePerPiece(s, rnd) ==
    IF IsNull(s.currentPiece) \/ s.gameOver THEN s
    ELSE
    LET currentType == s.currentPiece.type
    IN  IF s.heldPiece = NullType
        THEN [s EXCEPT !.heldPiece    = currentType,
                       !.currentPiece = s.nextPiece,
                       !.nextPiece    = QueueHead(s.nextPieces),
                       !.nextPieces   = ShiftQueue(s.nextPieces, rnd[1])]
        ELSE IF s.currentPiece = randomTetromino(currentType) THEN s
        ELSE
        LET tempHeld == s.heldPiece
            newPiece == [randomTetromino(tempHeld) EXCEPT
                           !.position = [x |-> IF tempHeld = "O" THEN 4 ELSE 3, y |-> 0]]
        IN  IF ~ isValidPosition(newPiece, s.board, newPiece.position, newPiece.shape)
            THEN [s EXCEPT !.gameOver = TRUE]
            ELSE [s EXCEPT !.heldPiece    = currentType,
                           !.currentPiece = newPiece,
                           !.nextPieces   = s.nextPieces]

HOLD(s, rnd) ==
    IF IsNull(s.currentPiece) \/ s.gameOver THEN s
    ELSE
    LET currentType == s.currentPiece.type
    IN  IF s.heldPiece = NullType
        THEN [s EXCEPT !.heldPiece    = currentType,
                       !.currentPiece = s.nextPiece,
                       !.nextPiece    = QueueHead(s.nextPieces),
                       !.nextPieces   = ShiftQueue(s.nextPieces, rnd[1])]
        ELSE
        LET tempHeld == s.heldPiece
            newPiece == [randomTetromino(tempHeld) EXCEPT
                           !.position = [x |-> IF tempHeld = "O" THEN 4 ELSE 3, y |-> 0]]
        IN  IF ~ isValidPosition(newPiece, s.board, newPiece.position, newPiece.shape)
            THEN [s EXCEPT !.gameOver = TRUE]
            ELSE [s EXCEPT !.heldPiece    = currentType,
                           !.currentPiece = newPiece,
                           !.nextPieces   = s.nextPieces]

PAUSE_GAME(s) == [s EXCEPT !.isPaused = TRUE]

RESUME_GAME_restarts(s) == [s EXCEPT !.isPaused = FALSE, !.currentPiece.position.y = 0]

RESUME_GAME(s) == [s EXCEPT !.isPaused = FALSE]

\* gameReducer(state, { type: a }).  TICK calls gameReducer again, so its
\* MOVE_DOWN passes both gates a second time.
RECURSIVE gameReducer(_, _, _)

\* The switch statement.
ActionSwitch(s, a, rnd) ==
    CASE a = "NEW_GAME"    -> initGameState(rnd)
      [] a = "PAUSE_GAME"  -> PAUSE_GAME(s)
      [] a = "RESUME_GAME" -> RESUME_GAME(s)
      [] a = "MOVE_LEFT"   -> MOVE_LEFT(s)
      [] a = "MOVE_RIGHT"  -> MOVE_RIGHT(s)
      [] a = "MOVE_DOWN"   -> MOVE_DOWN(s, rnd)
      [] a = "ROTATE"      -> ROTATE(s)
      [] a = "HARD_DROP"   -> HARD_DROP(s, rnd)
      [] a = "TICK"        -> gameReducer(s, "MOVE_DOWN", rnd)
      [] a = "GAME_OVER"   -> GAME_OVER(s)
      [] a = "NEW_PIECE"   -> NEW_PIECE(s, rnd)
      [] a = "HOLD"        -> HOLD(s, rnd)
      [] OTHER             -> s

gameReducer_noGameOverGate(s, a, rnd) ==
    IF s.isPaused /\ a # "RESUME_GAME" /\ a # "NEW_GAME" THEN s
    ELSE ActionSwitch(s, a, rnd)

gameReducer_pauseGateLeak(s, a, rnd) ==
    IF s.gameOver /\ a # "NEW_GAME" THEN s
    ELSE IF s.isPaused /\ a # "RESUME_GAME" /\ a # "NEW_GAME" /\ a # "GAME_OVER" THEN s
    ELSE ActionSwitch(s, a, rnd)

gameReducer_newGameGated(s, a, rnd) ==
    IF s.gameOver THEN s
    ELSE IF s.isPaused /\ a # "RESUME_GAME" /\ a # "NEW_GAME" THEN s
    ELSE ActionSwitch(s, a, rnd)

gameReducer_pauseAfterEnd(s, a, rnd) ==
    IF s.gameOver /\ a # "NEW_GAME" /\ a # "PAUSE_GAME" THEN s
    ELSE IF s.isPaused /\ a # "RESUME_GAME" /\ a # "NEW_GAME" THEN s
    ELSE ActionSwitch(s, a, rnd)

gameReducer(s, a, rnd) ==
    IF s.gameOver /\ a # "NEW_GAME" THEN s
    ELSE IF s.isPaused /\ a # "RESUME_GAME" /\ a # "NEW_GAME" THEN s
    ELSE ActionSwitch(s, a, rnd)

-----------------------------------------------------------------------------
(* Math.random: the outcomes explored *)

\* The draws of one reducer call: runs of the `types` array starting at its
\* k-th entry (the order the test suite's mock draws in), and the same type
\* drawn every time.
RandomDraws ==
    {Array([i \in 1..5 |-> types[((k + i - 1) % Len(types)) + 1]], 5) : k \in 0..(MaxRandom - 1)}
    \cup {Array([i \in 1..5 |-> types[(k % Len(types)) + 1]], 5) : k \in 0..(MaxRandom - 1)}

\* The draws of a reducer call other than NEW_GAME, which calls
\* randomTetromino() at most once.
OneDraw == {<<rnd[1]>> : rnd \in RandomDraws}

-----------------------------------------------------------------------------
(* Games played up to a position: every initial state of the model is       *)
(* initGameState() followed by a sequence of reducer calls.                  *)

\* A placement: the piece is turned `rot` times, moved `n` times by `move`
\* and hard-dropped.
Put(rot, move, n) == [rot |-> rot, move |-> move, n |-> n]

\* s after action a has been dispatched n times, Math.random drawing `type`
\* (a finished game takes no action but NEW_GAME, which is never replayed).
RECURSIVE Repeat(_, _, _, _)
Repeat(s, a, n, type) ==
    IF s.gameOver \/ n = 0 THEN s
    ELSE Repeat(gameReducer(s, a, <<type, type, type, type, type>>), a, n - 1, type)

\* The game in which the pieces come in the order `pieces` (then "I"s) and
\* the first Len(puts) of them are placed as `puts` says.
PieceAt(pieces, k) == IF k <= Len(pieces) THEN pieces[k] ELSE "I"

RECURSIVE Place(_, _, _, _)
Place(s, pieces, puts, k) ==
    IF s.gameOver \/ k > Len(puts) THEN s
    ELSE LET turned == Repeat(s, "ROTATE", puts[k].rot, "I")
             moved  == Repeat(turned, puts[k].move, puts[k].n, "I")
         IN  Place(gameReducer(moved, "HARD_DROP", <<PieceAt(pieces, k + 5)>>),
                   pieces, puts, k + 1)

\* ... and the next piece is turned, moved sideways and moved down `down` rows.
Played(pieces, puts, last, down) ==
    LET start  == initGameState(<<PieceAt(pieces, 2), PieceAt(pieces, 1), PieceAt(pieces, 3),
                                  PieceAt(pieces, 4), PieceAt(pieces, 5)>>)
        placed == Place(start, pieces, puts, 1)
        turned == Repeat(placed, "ROTATE", last.rot, "I")
        moved  == Repeat(turned, last.move, last.n, "I")
    IN  Repeat(moved, "MOVE_DOWN", down, "I")

\* An I on the left and an I beside it fill columns 0..7 of the lowest free row.
TwoIs == <<Put(0, "MOVE_LEFT", 3), Put(0, "MOVE_RIGHT", 1)>>

\* A piece dropped at the right wall (an O in columns 8..9).
AtRight == <<Put(0, "MOVE_RIGHT", 4)>>

\* An upright I (one turn) dropped into column 8.
UprightAt8 == <<Put(1, "MOVE_RIGHT", 3)>>

\* Five pieces that clear two rows and leave the board empty: I, I and O
\* complete the bottom row, whose clearing leaves the O's upper half in
\* columns 8..9, and the next two Is complete that row.
TwoRowsCleared == TwoIs \o AtRight \o TwoIs

FiveTypes == <<"I", "I", "O", "I", "I">>

\* A new game whose current piece is a T.
TSpawned == Played(<<"T", "I", "J", "L", "O">>, <<>>, Put(0, "MOVE_LEFT", 0), 0)

\* An O resting in columns 8..9 over a bottom row filled in columns 0..7:
\* its lock completes one row.
OneLinePending ==
    Played(<<"I", "I", "O", "J", "L", "S", "T", "Z">>, TwoIs, Put(0, "MOVE_RIGHT", 4), 18)

\* The same over two such rows: its lock completes two rows.
TwoLinesPending ==
    Played(<<"I", "I", "I", "I", "O", "T", "S", "Z", "J", "L">>,
           TwoIs \o TwoIs, Put(0, "MOVE_RIGHT", 4), 18)

\* Rows 17..19 filled in columns 0..7, an upright I in column 8 and an
\* upright I resting in column 9: its lock completes three rows.
ThreeLinesPending ==
    Played(<<"I", "I", "I", "I", "I", "I", "I", "I", "T", "S", "Z", "J">>,
           TwoIs \o TwoIs \o TwoIs \o UprightAt8, Put(1, "MOVE_RIGHT", 4), 16)

\* The same over rows 16..19: its lock completes four rows.  The upright I
\* stands in a well one cell wide, where no rotation fits.
FourLinesPending ==
    Played(<<"I", "I", "I", "I", "I", "I", "I", "I", "I", "I", "L", "J", "O", "T">>,
           TwoIs \o TwoIs \o TwoIs \o TwoIs \o UprightAt8, Put(1, "MOVE_RIGHT", 4), 16)

\* Nine rows cleared, and an I resting where its lock completes the tenth.
LevelUpPending ==
    Played(FiveTypes \o FiveTypes \o FiveTypes \o FiveTypes \o FiveTypes
             \o <<"J", "L", "S", "T">>,
           TwoRowsCleared \o TwoRowsCleared \o TwoRowsCleared \o TwoRowsCleared
             \o TwoIs \o AtRight \o <<Put(0, "MOVE_LEFT", 3)>>,
           Put(0, "MOVE_RIGHT", 1), 18)

\* Ten rows cleared (level 2), and an O resting where its lock completes
\* the eleventh.
LevelTwoPending ==
    Played(FiveTypes \o FiveTypes \o FiveTypes \o FiveTypes \o FiveTypes
             \o <<"I", "I", "O", "Z", "S", "L", "J">>,
           TwoRowsCleared \o TwoRowsCleared \o TwoRowsCleared \o TwoRowsCleared
             \o TwoRowsCleared \o TwoIs,
           Put(0, "MOVE_RIGHT", 4), 18)

\* An upright I locked in column 5 and an S two rows above its top: the
\* turned S collides with the top cell where it is, and fits one column to
\* the right as well as one column to the left.
KickChoice ==
    Played(<<"I", "S", "T", "J", "L", "O">>, <<Put(1, "MOVE_LEFT", 0)>>,
           Put(0, "MOVE_LEFT", 0), 14)

\* An upright I against the left wall (one turn, column 0) and against the
\* right wall (three turns, column 9), in the air.
UprightAtLeftWall ==
    Played(<<"I", "J", "L", "O", "S">>, <<>>, Put(1, "MOVE_LEFT", 5), 2)

UprightAtRightWall ==
    Played(<<"I", "Z", "T", "S", "O">>, <<>>, Put(3, "MOVE_RIGHT", 5), 2)

\* Four upright Is stacked in column 5 (rows 4..19) and a fifth resting on
\* them in rows 0..3.
TopOutPending ==
    Played(<<"I", "I", "I", "I", "I", "J", "L", "O", "S">>,
           <<Put(1, "MOVE_LEFT", 0), Put(1, "MOVE_LEFT", 0),
             Put(1, "MOVE_LEFT", 0), Put(1, "MOVE_LEFT", 0)>>,
           Put(1, "MOVE_LEFT", 0), 0)

\* Stacks up to row 2 in columns 0, 5 and 9 (an O and four upright Is each),
\* an I lying on the left stack and one on the right stack in row 1, and an
\* O spawned on the middle stack in rows 0..1: its lock completes row 1, and
\* the clear moves its upper half out of row 0.
StackTo2(move, n) ==
    <<Put(0, move, IF n = 0 THEN 0 ELSE 4),
      Put(1, move, n), Put(1, move, n), Put(1, move, n), Put(1, move, n)>>

ClearAtCeilingPending ==
    Played(<<"O", "I", "I", "I", "I", "O", "I", "I", "I", "I", "O", "I", "I", "I", "I",
             "I", "I", "O", "J", "L", "S", "T">>,
           StackTo2("MOVE_LEFT", 5) \o StackTo2("MOVE_RIGHT", 4) \o StackTo2("MOVE_LEFT", 0)
             \o <<Put(0, "MOVE_LEFT", 3), Put(0, "MOVE_RIGHT", 3)>>,
           Put(0, "MOVE_LEFT", 0), 0)

\* A stack up to row 2 in column 5 and an I lying on it in row 1, columns
\* 3..6: row 0 is empty and the game goes on, with row 1 occupied where
\* every piece spawns.
BlockedSpawn ==
    Played(<<"O", "I", "I", "I", "I", "I", "T", "O", "S", "Z", "J">>,
           StackTo2("MOVE_LEFT", 0) \o <<Put(0, "MOVE_LEFT", 0)>>,
           Put(0, "MOVE_LEFT", 0), 0)

\* ... and the piece that came next has been put on hold.
SwapBlockedPending == gameReducer(BlockedSpawn, "HOLD", <<"L">>)

\* A T is put on hold in a new game, and the I that follows is turned once
\* and moved down three rows.
HoldPending ==
    Repeat(Repeat(gameReducer(TSpawned, "HOLD", <<"Z">>), "ROTATE", 1, "I"),
           "MOVE_DOWN", 3, "I")

InitStates ==
    {initGameState(rnd) : rnd \in RandomDraws}
    \cup {TSpawned, OneLinePending, TwoLinesPending, ThreeLinesPending,
          FourLinesPending, LevelUpPending, LevelTwoPending, KickChoice,
          UprightAtLeftWall, UprightAtRightWall, TopOutPending,
          ClearAtCeilingPending, SwapBlockedPending, HoldPending}

-----------------------------------------------------------------------------
(* The driver: one action per action type of GameAction *)

Init ==
    /\ state \in InitStates
    /\ prev = state
    /\ action = "INIT"
    /\ before = [state |-> state, action |-> "INIT"]
    /\ steps = 0

\* What the history variables record of a dispatch of action type a.
Logged(a) ==
    /\ prev' = state
    /\ action' = a
    /\ before' = [state |-> prev, action |-> action]
    /\ steps' = steps + 1

\* The draws handed to an action that never calls randomTetromino.
NoDraw == <<"I", "I", "I", "I", "I">>

NewGame ==
    \E rnd \in RandomDraws :
        /\ steps < MaxSteps
        /\ state' = gameReducer(state, "NEW_GAME", rnd)
        /\ Logged("NEW_GAME")

PauseGame ==
    /\ steps < MaxSteps
    /\ state' = gameReducer(state, "PAUSE_GAME", NoDraw)
    /\ Logged("PAUSE_GAME")

ResumeGame ==
    /\ steps < MaxSteps
    /\ state' = gameReducer(state, "RESUME_GAME", NoDraw)
    /\ Logged("RESUME_GAME")

MoveLeft ==
    /\ steps < MaxSteps
    /\ state' = gameReducer(state, "MOVE_LEFT", NoDraw)
    /\ Logged("MOVE_LEFT")

MoveRight ==
    /\ steps < MaxSteps
    /\ state' = gameReducer(state, "MOVE_RIGHT", NoDraw)
    /\ Logged("MOVE_RIGHT")

MoveDown ==
    \E rnd \in OneDraw :
        /\ steps < MaxSteps
        /\ state' = gameReducer(state, "MOVE_DOWN", rnd)
        /\ Logged("MOVE_DOWN")

Rotate ==
    /\ steps < MaxSteps
    /\ state' = gameReducer(state, "ROTATE", NoDraw)
    /\ Logged("ROTATE")

HardDrop ==
    \E rnd \in OneDraw :
        /\ steps < MaxSteps
        /\ state' = gameReducer(state, "HARD_DROP", rnd)
        /\ Logged("HARD_DROP")

Tick ==
    \E rnd \in OneDraw :
        /\ steps < MaxSteps
        /\ state' = gameReducer(state, "TICK", rnd)
        /\ Logged("TICK")

GameOver ==
    /\ steps < MaxSteps
    /\ state' = gameReducer(state, "GAME_OVER", NoDraw)
    /\ Logged("GAME_OVER")

NewPiece ==
    \E rnd \in OneDraw :
        /\ steps < MaxSteps
        /\ state' = gameReducer(state, "NEW_PIECE", rnd)
        /\ Logged("NEW_PIECE")

Hold ==
    \E rnd \in OneDraw :
        /\ steps < MaxSteps
        /\ state' = gameReducer(state, "HOLD", rnd)
        /\ Logged("HOLD")

Next ==
    \/ NewGame
    \/ PauseGame
    \/ ResumeGame
    \/ MoveLeft
    \/ MoveRight
    \/ MoveDown
    \/ Rotate
    \/ HardDrop
    \/ Tick
    \/ GameOver
    \/ NewPiece
    \/ Hold

Spec == Init /\ [][Next]_vars

-----------------------------------------------------------------------------
(* clearLines on its own: the boards it is handed and the call *)

\* Row y of a board handed to clearLines: complete when y \in full, empty
\* above row `top`, and otherwise filled except for one hole, in column
\* y mod 10.  The cell type depends on y, so the rows of a board with
\* top = 0 are all different.
BoardRow(y, full, top) ==
    Array([x \in 1..BOARD_WIDTH |->
              IF y \in full THEN types[(y % Len(types)) + 1]
              ELSE IF y < top \/ x - 1 = y % BOARD_WIDTH THEN "empty"
              ELSE types[(y % Len(types)) + 1]], BOARD_WIDTH)

BoardOf(full, top) ==
    Array([r \in 1..BOARD_HEIGHT |-> BoardRow(r - 1, full, top)], BOARD_HEIGHT)

ClearBoards ==
    {BoardOf(full, top) :
        full \in {f \in SUBSET (0..(BOARD_HEIGHT - 1)) : Cardinality(f) <= MaxFullRows},
        top \in {0, 6}}

ClearInit ==
    /\ state \in {[board |-> board] : board \in ClearBoards}
    /\ prev = state
    /\ action = "INIT"
    /\ before = [state |-> state, action |-> "INIT"]
    /\ steps = 0

\* const { clearedBoard, linesCleared } = clearLines(board)
ClearLines ==
    /\ action = "INIT"
    /\ state' = clearLines(state.board)
    /\ Logged("clearLines")

ClearNext == ClearLines

ClearSpec == ClearInit /\ [][ClearNext]_vars

-----------------------------------------------------------------------------
(* isValidPosition on its own: the queries it is handed and the call *)

\* The shape of the catalog piece `type` after `turns` calls of rotateTetromino.
RECURSIVE Turned(_, _)
Turned(tetromino, turns) ==
    IF turns = 0 THEN tetromino.shape
    ELSE Turned([tetromino EXCEPT !.shape = rotateTetromino(tetromino)], turns - 1)

\* createTestBoard of the "Position Validation" tests: I at the two bottom
\* corners and a J at row 15, column 5.
createTestBoard ==
    [createEmptyBoard EXCEPT ![20][1] = "I", ![20][10] = "I", ![16][6] = "J"]

\* The test board, and a board whose rows 12..19 are filled except for one
\* hole each.
ValidBoards == {createTestBoard, BoardOf({}, 12)}

ValidPositions ==
    {[x |-> x, y |-> y] : x \in (-MaxOutside)..(BOARD_WIDTH - 1 + MaxOutside),
                          y \in (-MaxOutside)..(BOARD_HEIGHT - 1 + MaxOutside)}

ValidInit ==
    /\ state \in {[tetromino |-> randomTetromino(type),
                    board     |-> board,
                    position  |-> position,
                    shape     |-> Turned(randomTetromino(type), turns)] :
                       type \in TetrominoTypes, turns \in 0..3,
                       board \in ValidBoards, position \in ValidPositions}
    /\ prev = state
    /\ action = "INIT"
    /\ before = [state |-> state, action |-> "INIT"]
    /\ steps = 0

\* isValidPosition(tetromino, board, position, shape)
IsValidPosition ==
    /\ action = "INIT"
    /\ state' = [result |-> isValidPosition(state.tetromino, state.board,
                                            state.position, state.shape)]
    /\ Logged("isValidPosition")

ValidNext == IsValidPosition

ValidSpec == ValidInit /\ [][ValidNext]_vars

-----------------------------------------------------------------------------
(* Vocabulary of the properties.  `prev`, `action` and `state` are one call *)
(* state = gameReducer(prev, { type: action }).                            *)

\* Neither gate applies and there is an active piece.
Playing(s) == ~ s.gameOver /\ ~ s.isPaused /\ ~ IsNull(s.currentPiece)

\* The Placement Validator accepts the active piece of s, as it is, at (x, y).
Fits(s, x, y) ==
    isValidPosition(s.currentPiece, s.board, [x |-> x, y |-> y], s.currentPiece.shape)

PieceX(s) == s.currentPiece.position.x

PieceY(s) == s.currentPiece.position.y

\* The row a straight descent of the active piece of s stops at: every row
\* passed on the way is valid and the row after it is not.
RestRow(s) ==
    CHOOSE y \in PieceY(s)..BOARD_HEIGHT :
        /\ \A k \in (PieceY(s) + 1)..y : Fits(s, PieceX(s), k)
        /\ ~ Fits(s, PieceX(s), y + 1)

\* The last action performed the Lock & Scoring Step, on LockedPiece.
Locked ==
    /\ Playing(prev)
    /\ \/ action = "HARD_DROP"
       \/ action \in {"MOVE_DOWN", "TICK"} /\ ~ Fits(prev, PieceX(prev), PieceY(prev) + 1)

LockedPiece ==
    IF action = "HARD_DROP"
    THEN [prev.currentPiece EXCEPT !.position.y = RestRow(prev)]
    ELSE prev.currentPiece

\* An occupied cell of `piece` lies on board cell (boardY, boardX).
Covers(piece, boardY, boardX) ==
    \E r \in 1..Len(piece.shape) : \E c \in 1..Len(piece.shape[r]) :
        /\ piece.shape[r][c] = 1
        /\ piece.position.y + (r - 1) = boardY
        /\ piece.position.x + (c - 1) = boardX

\* The rows (0-based) that are complete once LockedPiece is stamped on prev.board.
CompletedRows ==
    LET piece == LockedPiece
    IN  {y \in 0..(BOARD_HEIGHT - 1) :
            \A x \in 0..(BOARD_WIDTH - 1) :
                prev.board[y + 1][x + 1] # "empty" \/ Covers(piece, y, x)}

\* A piece as the Piece Factory makes it.
FreshPieces == {randomTetromino(type) : type \in TetrominoTypes}

-----------------------------------------------------------------------------
(* The reducer's gates, NEW_GAME, moves, rotation, drops and the lock *)

\* C1: game-over gate.  An action other than NEW_GAME applied to a state
\* with gameOver = true returns that state, unchanged in every field.
C1_GameOverGate ==
    (prev.gameOver /\ action \notin {"INIT", "NEW_GAME"}) => state = prev

\* A game that ended by topping out (row 0 occupied) is handed a HARD_DROP.
C1_Witness ==
    /\ prev.gameOver
    /\ prev.board[1] # EmptyRow
    /\ action = "HARD_DROP"

\* C2: pause gate.  An action other than RESUME_GAME and NEW_GAME applied to
\* a state with isPaused = true returns that state, unchanged in every field.
C2_PauseGate ==
    (prev.isPaused /\ action \notin {"INIT", "RESUME_GAME", "NEW_GAME"}) => state = prev

\* A paused, unfinished game whose piece rests on the stack is handed a TICK.
C2_Witness ==
    /\ prev.isPaused
    /\ ~ prev.gameOver
    /\ ~ Fits(prev, PieceX(prev), PieceY(prev) + 1)
    /\ action = "TICK"

\* C3: NEW_GAME applied to any state yields a fresh initial state: an empty
\* 10x20 board, score 0, level 1, lines 0, gameOver and isPaused false, no
\* held piece, a current piece, a next piece and exactly 3 queued pieces.
C3_NewGameFresh ==
    action = "NEW_GAME" =>
        LET fresh == FreshPieces IN
        /\ Len(state.board) = 20
        /\ \A y \in 1..20 :
              /\ Len(state.board[y]) = 10
              /\ \A x \in 1..10 : state.board[y][x] = "empty"
        /\ state.score = 0
        /\ state.level = 1
        /\ state.lines = 0
        /\ state.gameOver = FALSE
        /\ state.isPaused = FALSE
        /\ state.heldPiece = NullType
        /\ state.currentPiece \in fresh
        /\ state.nextPiece \in fresh
        /\ Len(state.nextPieces) = 3
        /\ \A i \in 1..3 : state.nextPieces[i] \in fresh

\* NEW_GAME is applied to a finished game that has scored.
C3_Witness ==
    /\ action = "NEW_GAME"
    /\ prev.gameOver
    /\ prev.score > 0
    /\ prev.board # createEmptyBoard

\* C4: gravity step.  In a playing state MOVE_DOWN and TICK move the piece
\* to y + 1 and change nothing else when that position is valid, and
\* otherwise perform the Lock & Scoring Step on the piece where it is; and
\* in every state TICK and MOVE_DOWN give the same result.
C4_GravityStep ==
    /\ (action \in {"MOVE_DOWN", "TICK"} /\ Playing(prev)) =>
          IF Fits(prev, PieceX(prev), PieceY(prev) + 1)
          THEN state = [prev EXCEPT !.currentPiece.position.y = @ + 1]
          ELSE \E rnd \in RandomDraws : state = lockPieceAndContinue(prev, rnd)
    /\ \A rnd \in OneDraw :
          gameReducer(state, "TICK", rnd) = gameReducer(state, "MOVE_DOWN", rnd)

\* A TICK reaches a playing state whose piece cannot move down: it locks.
C4_Witness ==
    /\ action = "TICK"
    /\ Playing(prev)
    /\ ~ Fits(prev, PieceX(prev), PieceY(prev) + 1)
    /\ state.board # prev.board
    /\ state.currentPiece = prev.nextPiece

\* C5: MOVE_LEFT / MOVE_RIGHT change x by -1 / +1 exactly when the Placement
\* Validator accepts the shifted position, and otherwise leave the state as
\* it is; either way nothing but x changes.
C5_SidewaysMove ==
    (action \in {"MOVE_LEFT", "MOVE_RIGHT"} /\ Playing(prev)) =>
        LET dx == IF action = "MOVE_LEFT" THEN -1 ELSE 1
        IN  IF Fits(prev, PieceX(prev) + dx, PieceY(prev))
            THEN state = [prev EXCEPT !.currentPiece.position.x = @ + dx]
            ELSE state = prev

\* A MOVE_LEFT is refused by a locked cell, not by the wall.
C5_Witness ==
    /\ action = "MOVE_LEFT"
    /\ Playing(prev)
    /\ ~ Fits(prev, PieceX(prev) - 1, PieceY(prev))
    /\ \A y \in 0..(BOARD_HEIGHT - 1) : ~ Covers(prev.currentPiece, y, 0)
    /\ state = prev

\* C6: ROTATE places the clockwise-rotated shape at the first x offset of
\* [0, +1, -1, +2, -2] at which it is valid: the piece takes the rotated
\* shape, x shifts by that offset, y is unchanged and rotation becomes
\* (rotation + 1) mod 4; when no offset is valid the state is unchanged.
C6_RotateWallKick ==
    (action = "ROTATE" /\ Playing(prev)) =>
        LET piece    == prev.currentPiece
            rotated  == rotateTetromino(piece)
            offsets  == <<0, 1, -1, 2, -2>>
            at(i)    == [x |-> piece.position.x + offsets[i], y |-> piece.position.y]
            accepted == {i \in 1..5 : isValidPosition(piece, prev.board, at(i), rotated)}
        IN  IF accepted = {}
            THEN state = prev
            ELSE LET first == CHOOSE i \in accepted : \A j \in accepted : i <= j
                 IN  state = [prev EXCEPT !.currentPiece =
                                [type     |-> piece.type,
                                 shape    |-> rotated,
                                 position |-> at(first),
                                 rotation |-> (piece.rotation + 1) % 4]]

\* The rotated shape collides where the piece is and fits both one column to
\* the right and one column to the left: the piece ends one column right.
C6_Witness ==
    /\ action = "ROTATE"
    /\ Playing(prev)
    /\ LET piece   == prev.currentPiece
           rotated == rotateTetromino(piece)
           at(dx)  == [x |-> piece.position.x + dx, y |-> piece.position.y]
       IN  /\ ~ isValidPosition(piece, prev.board, at(0), rotated)
           /\ isValidPosition(piece, prev.board, at(1), rotated)
           /\ isValidPosition(piece, prev.board, at(-1), rotated)
           /\ state.currentPiece.shape = rotated
    /\ PieceX(state) = PieceX(prev) + 1

\* C7: HARD_DROP locks the piece at (x, y*), y* the row at which a straight
\* descent stops, with x, shape and rotation unchanged; the lock runs once
\* and current / next / queue advance by one slot.  A T at (3, 0) on an empty
\* board ends with its bottom row on board row 19.
C7_HardDrop ==
    (action = "HARD_DROP" /\ Playing(prev)) =>
        LET piece  == prev.currentPiece
            free   == {y \in piece.position.y..(BOARD_HEIGHT + 1) :
                          Fits(prev, piece.position.x, y)}
            stops  == {y \in piece.position.y..BOARD_HEIGHT :
                          /\ \A k \in (piece.position.y + 1)..y : k \in free
                          /\ (y + 1) \notin free}
        IN  /\ \E ystar \in stops :
                  /\ stops = {ystar}
                  /\ \E rnd \in RandomDraws :
                        state = lockPieceAndContinue(
                                    [prev EXCEPT !.currentPiece.position.y = ystar], rnd)
            /\ state.currentPiece = prev.nextPiece
            /\ state.nextPiece = prev.nextPieces[1]
            /\ Len(state.nextPieces) = 3
            /\ SubSeq(state.nextPieces, 1, 2) = SubSeq(prev.nextPieces, 2, 3)
            /\ (prev.board = createEmptyBoard /\ piece = randomTetromino("T")) =>
                  \A y \in 0..19 : \A x \in 0..9 :
                      state.board[y + 1][x + 1] =
                          IF (y = 19 /\ x \in {3, 4, 5}) \/ (y = 18 /\ x = 4)
                          THEN "T" ELSE "empty"

\* The claim's example: a T at (3, 0) on an empty board is hard-dropped.
C7_Witness ==
    /\ action = "HARD_DROP"
    /\ Playing(prev)
    /\ prev.board = createEmptyBoard
    /\ prev.currentPiece = randomTetromino("T")
    /\ state.board[20][5] = "T"

\* C8: a lock that completes n rows adds POINTS_PER_LINE[n] * L to score,
\* POINTS_PER_LINE = [0, 40, 100, 300, 1200] and L the level before the lock,
\* and n to lines, n counting every row that is complete after stamping; a
\* lock completing no row leaves score and lines unchanged.
C8_LockScore ==
    Locked =>
        LET n == Cardinality(CompletedRows)
        IN  /\ n \in 0..4
            /\ state.score = prev.score + <<0, 40, 100, 300, 1200>>[n + 1] * prev.level
            /\ state.lines = prev.lines + n
            /\ (n = 0 => state.score = prev.score /\ state.lines = prev.lines)

\* A lock completes a row and changes the level: the points are counted at
\* the level before the lock.
C8_Witness ==
    /\ Locked
    /\ Cardinality(CompletedRows) = 1
    /\ state.level = prev.level + 1
    /\ state.score = prev.score + 40 * prev.level

\* C9: in every reachable state level = floor(lines / 10) + 1.
C9_LevelFromLines == state.level = (state.lines \div 10) + 1

\* A lock takes lines from 9 to 10 and level from 1 to 2.
C9_Witness ==
    /\ Locked
    /\ prev.lines = 9
    /\ prev.level = 1
    /\ state.lines = 10
    /\ state.level = 2

\* C10: the pipeline advances first-in-first-out on a lock that does not end
\* above the board: the current piece is the former nextPiece, nextPiece the
\* former nextPieces[0], and nextPieces the former nextPieces[1],
\* nextPieces[2] followed by one freshly spawned piece.
C10_PipelineFifo ==
    (Locked /\ LET piece == LockedPiece
               IN  ~ \E x \in 0..(BOARD_WIDTH - 1) : Covers(piece, -1, x)) =>
        /\ state.currentPiece = prev.nextPiece
        /\ state.nextPiece = prev.nextPieces[1]
        /\ Len(state.nextPieces) = 3
        /\ state.nextPieces[1] = prev.nextPieces[2]
        /\ state.nextPieces[2] = prev.nextPieces[3]
        /\ state.nextPieces[3] \in FreshPieces

\* A MOVE_DOWN locks while the four pieces in the pipeline have four types.
C10_Witness ==
    /\ Locked
    /\ action = "MOVE_DOWN"
    /\ Cardinality({prev.nextPiece.type} \cup {prev.nextPieces[i].type : i \in 1..3}) = 4
    /\ state.nextPieces[3] \in FreshPieces

-----------------------------------------------------------------------------
(* Top-out, line clearing, hold, the validator and the frame of the actions *)

\* C11: after a lock, gameOver is true if and only if it was true before, or
\* an occupied cell of the locked piece lay above row 0, or row 0 of the board
\* after line clearing holds a non-empty cell.  The test is made after the
\* clear: a lock that stamps row 0 of a board whose row 0 was empty and
\* completes a row does not end the game.
C11_TopOut ==
    Locked =>
        LET piece == LockedPiece
            above == \E r \in 1..Len(piece.shape) : \E c \in 1..Len(piece.shape[r]) :
                         piece.shape[r][c] = 1 /\ piece.position.y + (r - 1) < 0
        IN  /\ state.gameOver <=>
                  (prev.gameOver \/ above \/ \E x \in 1..BOARD_WIDTH : state.board[1][x] # "empty")
            /\ ( /\ ~ above
                 /\ prev.board[1] = EmptyRow
                 /\ CompletedRows # {} ) => ~ state.gameOver

\* A piece locked in rows 0..1 completes row 1; what is left of it lies in
\* row 1 after the clear and the game goes on.
C11_Witness ==
    /\ Locked
    /\ \E x \in 0..(BOARD_WIDTH - 1) : Covers(LockedPiece, 0, x)
    /\ CompletedRows = {1}
    /\ state.board[1] = EmptyRow
    /\ state.board[2] # EmptyRow
    /\ ~ state.gameOver

\* C12: clearLines(board) returns as count the number of rows of the input
\* whose every cell is non-empty, and as board count empty rows followed by
\* the incomplete rows of the input, in their order and unchanged: 20 rows
\* of 10 cells, none of them complete.
IsComplete(row) == \A x \in 1..Len(row) : row[x] # "empty"

IsIncomplete(row) == ~ IsComplete(row)

C12_ClearLines ==
    action = "clearLines" =>
        LET count == Cardinality({y \in 1..Len(prev.board) : IsComplete(prev.board[y])})
        IN  /\ state.linesCleared = count
            /\ state.clearedBoard =
                   [y \in 1..count |-> [x \in 1..10 |-> "empty"]]
                       \o SelectSeq(prev.board, IsIncomplete)
            /\ Len(state.clearedBoard) = 20
            /\ \A y \in 1..20 :
                   /\ Len(state.clearedBoard[y]) = 10
                   /\ ~ IsComplete(state.clearedBoard[y])

\* Rows 0, 10 and 11 of the input are complete (row 0, and an adjacent
\* pair apart from it), every other row has nine cells.
C12_Witness ==
    /\ action = "clearLines"
    /\ {y \in 1..20 : IsComplete(prev.board[y])} = {1, 11, 12}
    /\ \A y \in 1..20 : prev.board[y] # EmptyRow
    /\ state.linesCleared = 3
    /\ state.clearedBoard[4] = prev.board[2]
    /\ state.clearedBoard[20] = prev.board[20]

\* The piece of type `type` as the catalog gives it, at the spawn position
\* (column 4 for O and 3 otherwise, row 0).
SpawnOf(type) ==
    [type     |-> type,
     shape    |-> TETROMINOS(type),
     position |-> [x |-> IF type = "O" THEN 4 ELSE 3, y |-> 0],
     rotation |-> 0]

\* Every occupied cell of that piece lies on an empty cell of the board of s.
SpawnFree(s, type) ==
    \A y \in 0..(BOARD_HEIGHT - 1) : \A x \in 0..(BOARD_WIDTH - 1) :
        Covers(SpawnOf(type), y, x) => s.board[y + 1][x + 1] = "empty"

\* C13: first HOLD (nothing held, an active piece, not paused, not game
\* over): heldPiece becomes the active piece's type, the active piece becomes
\* the former nextPiece, nextPiece the former nextPieces[0], nextPieces its
\* tail followed by a fresh piece; board, score, lines, level, gameOver and
\* isPaused are unchanged.
C13_FirstHold ==
    (action = "HOLD" /\ Playing(prev) /\ prev.heldPiece = NullType) =>
        /\ state.heldPiece = prev.currentPiece.type
        /\ state.currentPiece = prev.nextPiece
        /\ state.nextPiece = prev.nextPieces[1]
        /\ Len(state.nextPieces) = 3
        /\ state.nextPieces[1] = prev.nextPieces[2]
        /\ state.nextPieces[2] = prev.nextPieces[3]
        /\ state.nextPieces[3] \in FreshPieces
        /\ state.board = prev.board
        /\ state.score = prev.score
        /\ state.lines = prev.lines
        /\ state.level = prev.level
        /\ state.gameOver = prev.gameOver
        /\ state.isPaused = prev.isPaused

\* A first HOLD in a game with points scored and cells on the board, the
\* pieces in the pipeline of four types.
C13_Witness ==
    /\ action = "HOLD"
    /\ Playing(prev)
    /\ prev.heldPiece = NullType
    /\ prev.score > 0
    /\ prev.board # createEmptyBoard
    /\ Cardinality({prev.currentPiece.type, prev.nextPiece.type}
                     \cup {prev.nextPieces[i].type : i \in 1..3}) >= 4
    /\ state.heldPiece = prev.currentPiece.type

\* C14: HOLD with a piece of type T held whose spawn position is free: the
\* active piece becomes the catalog T at rotation 0 and position
\* (4 if T is O else 3, 0), heldPiece the type of the piece that was active;
\* nextPiece, nextPieces, board, score, lines and level are unchanged.
C14_HoldSwap ==
    ( /\ action = "HOLD"
      /\ Playing(prev)
      /\ prev.heldPiece # NullType
      /\ SpawnFree(prev, prev.heldPiece) ) =>
        /\ state.currentPiece = SpawnOf(prev.heldPiece)
        /\ state.heldPiece = prev.currentPiece.type
        /\ state.nextPiece = prev.nextPiece
        /\ state.nextPieces = prev.nextPieces
        /\ state.board = prev.board
        /\ state.score = prev.score
        /\ state.lines = prev.lines
        /\ state.level = prev.level

\* An O is held and swapped in for a piece of another type: it appears in
\* column 4.
C14_Witness ==
    /\ action = "HOLD"
    /\ Playing(prev)
    /\ prev.heldPiece = "O"
    /\ prev.currentPiece.type # "O"
    /\ prev.board # createEmptyBoard
    /\ state.currentPiece.type = "O"
    /\ state.currentPiece.position = [x |-> 4, y |-> 0]
    /\ state.heldPiece = prev.currentPiece.type

\* C15: HOLD with a piece held whose spawn position collides sets gameOver
\* and changes nothing else.
C15_HoldSwapBlocked ==
    ( /\ action = "HOLD"
      /\ Playing(prev)
      /\ prev.heldPiece # NullType
      /\ ~ SpawnFree(prev, prev.heldPiece) ) =>
        /\ state.gameOver
        /\ state.heldPiece = prev.heldPiece
        /\ state.currentPiece = prev.currentPiece
        /\ state.nextPiece = prev.nextPiece
        /\ state.nextPieces = prev.nextPieces
        /\ state.board = prev.board
        /\ state.score = prev.score
        /\ state.lines = prev.lines
        /\ state.level = prev.level
        /\ state.isPaused = prev.isPaused

\* A T is held while row 1 is occupied in columns 3..6 and row 0 is empty.
C15_Witness ==
    /\ action = "HOLD"
    /\ Playing(prev)
    /\ prev.heldPiece = "T"
    /\ prev.board[1] = EmptyRow
    /\ prev.board[2][5] # "empty"
    /\ state.gameOver
    /\ state.heldPiece = "T"

\* The occupied cells (value 1) of the query `q`, as board coordinates.
QueryCells(q) ==
    {[x |-> q.position.x + (c - 1), y |-> q.position.y + (r - 1)] :
        <<r, c>> \in {rc \in (1..Len(q.shape)) \X (1..Len(q.shape)) :
                         q.shape[rc[1]][rc[2]] = 1}}

ColumnOutside(cell) == cell.x < 0 \/ cell.x >= 10

RowOutside(cell) == cell.y < 0 \/ cell.y >= 20

\* C16: isValidPosition answers false exactly when an occupied cell of the
\* shape maps to a column outside [0, 10), to a row outside [0, 20) or to a
\* non-empty board cell, and true otherwise; cells of value 0 impose no
\* constraint; it answers for every position, inside the board or not.
C16_Validator ==
    action = "isValidPosition" =>
        /\ state.result \in BOOLEAN
        /\ state.result = FALSE <=>
               \E cell \in QueryCells(prev) :
                   \/ ColumnOutside(cell)
                   \/ RowOutside(cell)
                   \/ prev.board[cell.y + 1][cell.x + 1] # "empty"

\* An upright I whose bounding matrix hangs two columns over the left edge
\* is accepted in column 0.
C16_Witness ==
    /\ action = "isValidPosition"
    /\ prev.position.x = -2
    /\ prev.tetromino.type = "I"
    /\ \A cell \in QueryCells(prev) : cell.x = 0
    /\ state.result = TRUE

C18_Unconditional ==
    action = "GAME_OVER" => state = [prev EXCEPT !.gameOver = TRUE]

\* C18, amended: GAME_OVER applied to a state that is not paused gives
\* gameOver = true and changes no other field; applied to a paused state it
\* is stopped by the pause gate and changes nothing, gameOver included.
C18_GameOverForced ==
    action = "GAME_OVER" =>
        /\ ~ prev.isPaused => state = [prev EXCEPT !.gameOver = TRUE]
        /\ prev.isPaused => state = prev

\* GAME_OVER ends a game in play, with cells on the board.
C18_Witness ==
    /\ action = "GAME_OVER"
    /\ Playing(prev)
    /\ prev.board # createEmptyBoard
    /\ state.gameOver
    /\ state.currentPiece = prev.currentPiece

\* C19: PAUSE_GAME in a playing state sets isPaused, RESUME_GAME clears it,
\* and neither changes another field; PAUSE_GAME followed by RESUME_GAME
\* gives back the state PAUSE_GAME was applied to.
C19_PauseResume ==
    /\ (action = "PAUSE_GAME" /\ Playing(prev)) =>
           /\ state.isPaused
           /\ state = [prev EXCEPT !.isPaused = TRUE]
    /\ (action = "RESUME_GAME" /\ ~ prev.gameOver) =>
           /\ ~ state.isPaused
           /\ state = [prev EXCEPT !.isPaused = FALSE]
    /\ ( /\ action = "RESUME_GAME"
         /\ before.action = "PAUSE_GAME"
         /\ Playing(before.state) ) => state = before.state

\* A game with a piece in the air over locked cells is paused and resumed.
C19_Witness ==
    /\ action = "RESUME_GAME"
    /\ before.action = "PAUSE_GAME"
    /\ Playing(before.state)
    /\ prev.isPaused
    /\ before.state.board # createEmptyBoard
    /\ before.state.currentPiece.position.y > 0
    /\ state = before.state

\* C20: in every reachable state the board is 20 rows of 10 cells, and a
\* board cell changes only in a lock (HARD_DROP, or MOVE_DOWN / TICK on a
\* resting piece) or in NEW_GAME: MOVE_LEFT, MOVE_RIGHT, ROTATE, HOLD,
\* PAUSE_GAME, RESUME_GAME, GAME_OVER, NEW_PIECE and a MOVE_DOWN / TICK that
\* moves the piece leave every cell as it was.
C20_BoardFrame ==
    /\ Len(state.board) = 20
    /\ \A y \in 1..20 : Len(state.board[y]) = 10
    /\ (action \notin {"INIT", "NEW_GAME"} /\ ~ Locked) =>
           \A y \in 1..20 : \A x \in 1..10 : state.board[y][x] = prev.board[y][x]

\* NEW_PIECE replaces a piece in the air over locked cells, and the board
\* is left as it was.
C20_Witness ==
    /\ action = "NEW_PIECE"
    /\ Playing(prev)
    /\ prev.board # createEmptyBoard
    /\ state.currentPiece = prev.nextPiece
    /\ state.board = prev.board

-----------------------------------------------------------------------------
(* The queue, the ways a game ends, and well-formed states *)

\* C21: in every reachable state nextPieces holds exactly 3 pieces.
C21_ThreeQueued ==
    /\ Len(state.nextPieces) = 3
    /\ \A i \in 1..3 : state.nextPieces[i].type \in TetrominoTypes

\* NEW_PIECE follows a first HOLD: the queue was shifted twice, and holds
\* its former last piece followed by two fresh ones.
C21_Witness ==
    /\ action = "NEW_PIECE"
    /\ before.action = "HOLD"
    /\ Playing(before.state)
    /\ before.state.heldPiece = NullType
    /\ Len(state.nextPieces) = 3
    /\ state.nextPieces[1] = before.state.nextPieces[3]
    /\ state.currentPiece = before.state.nextPieces[1]

\* C26: gameOver turns from false to true only in a lock, in a HOLD swap
\* whose spawn position collides, or by GAME_OVER: no move, rotation,
\* descent that moves the piece, pause, resume, NEW_PIECE, first HOLD or
\* successful swap sets it.
C26_GameOverTriggers ==
    (action # "INIT" /\ ~ prev.gameOver /\ state.gameOver) =>
        \/ Locked
        \/ action = "GAME_OVER"
        \/ /\ action = "HOLD"
           /\ prev.heldPiece # NullType
           /\ ~ SpawnFree(prev, prev.heldPiece)

\* A MOVE_DOWN locks a piece that rests in rows 0..3: the game, which was
\* going on, is over.
C26_Witness ==
    /\ action = "MOVE_DOWN"
    /\ Locked
    /\ ~ prev.gameOver
    /\ state.gameOver
    /\ state.board[1] # EmptyRow

\* A GameState as types.ts declares it, with the pieces present.
IsPiece(piece) ==
    /\ piece.type \in TetrominoTypes
    /\ Len(piece.shape) \in 2..4
    /\ \A r \in 1..Len(piece.shape) :
           /\ Len(piece.shape[r]) = Len(piece.shape)
           /\ \A c \in 1..Len(piece.shape) : piece.shape[r][c] \in {0, 1}
    /\ piece.position.x \in Int
    /\ piece.position.y \in Int
    /\ piece.rotation \in 0..3

WellFormed(s) ==
    /\ Len(s.board) = 20
    /\ \A y \in 1..20 :
           /\ Len(s.board[y]) = 10
           /\ \A x \in 1..10 : s.board[y][x] \in TetrominoTypes \cup {"empty"}
    /\ IsPiece(s.currentPiece)
    /\ IsPiece(s.nextPiece)
    /\ Len(s.nextPieces) = 3
    /\ \A i \in 1..3 : IsPiece(s.nextPieces[i])
    /\ s.heldPiece \in TetrominoTypes \cup {NullType}
    /\ s.score \in Nat
    /\ s.lines \in Nat
    /\ s.level \in Nat \ {0}
    /\ s.gameOver \in BOOLEAN
    /\ s.isPaused \in BOOLEAN

\* C27: every action applied to a reachable state yields a well-formed
\* GameState: the current piece and nextPiece are never null, every queue
\* slot is populated, and a lock writes only board cells with
\* 0 <= row < 20 and 0 <= column < 10.
C27_NoExceptions ==
    /\ WellFormed(state)
    /\ Locked =>
           LET piece == LockedPiece
           IN  \A r \in 1..Len(piece.shape) : \A c \in 1..Len(piece.shape) :
                   piece.shape[r][c] = 1 =>
                       /\ piece.position.y + (r - 1) \in 0..19
                       /\ piece.position.x + (c - 1) \in 0..9

\* A piece moved against the right wall is locked there: its cells are in
\* columns 8..9.
C27_Witness ==
    /\ Locked
    /\ before.action = "MOVE_RIGHT"
    /\ before.state = prev
    /\ \E y \in 0..19 : Covers(prev.currentPiece, y, 9)
    /\ WellFormed(state)
    /\ state.board # prev.board

\* C28: every lock clears between 0 and 4 rows, so POINTS_PER_LINE is
\* indexed inside [0, 4] and the score stays a defined integer.
C28_ClearedInRange ==
    /\ state.score \in Nat
    /\ Locked =>
           /\ Cardinality(CompletedRows) \in 0..4
           /\ (state.lines - prev.lines) \in 0..4
           /\ state.score >= prev.score

\* A lock clears four rows: the score grows by the last entry of the table.
C28_Witness ==
    /\ Locked
    /\ state.lines = prev.lines + 4
    /\ state.score = prev.score + 1200 * prev.level

\* C30: HOLD has no cooldown.  It is processed in every state that is
\* neither paused nor over and has an active piece, also right after a
\* HOLD; two successful swaps in a row give back the held type and an active
\* piece of the original type, at its spawn position, in its base shape and
\* with rotation 0.
C30_HoldNoCooldown ==
    /\ (action = "HOLD" /\ Playing(prev)) =>
           (state.gameOver \/ state.heldPiece = prev.currentPiece.type)
    /\ ( /\ action = "HOLD"
         /\ before.action = "HOLD"
         /\ Playing(before.state)
         /\ before.state.heldPiece # NullType
         /\ Playing(prev)
         /\ ~ state.gameOver ) =>
           /\ state.currentPiece = SpawnOf(before.state.currentPiece.type)
           /\ state.heldPiece = before.state.heldPiece

\* A T is held and the active I is turned and three rows down; after two
\* HOLDs a T is held again and the I is back at (3, 0), lying flat.
C30_Witness ==
    /\ action = "HOLD"
    /\ before.action = "HOLD"
    /\ Playing(before.state)
    /\ before.state.heldPiece = "T"
    /\ before.state.currentPiece.type = "I"
    /\ before.state.currentPiece.rotation = 1
    /\ before.state.currentPiece.position.y = 3
    /\ prev.heldPiece = "I"
    /\ state.heldPiece = "T"
    /\ state.currentPiece = SpawnOf("I")

(***************************************************************************)
(* getDropSpeed alone                                                      *)
(***************************************************************************)
SpeedInit ==
    /\ state \in {[level |-> level] : level \in 1..MaxLevel}
    /\ prev = state
    /\ action = "INIT"
    /\ before = [state |-> state, action |-> "INIT"]
    /\ steps = 0

\* getDropSpeed(level)
GetDropSpeed ==
    /\ action = "INIT"
    /\ state' = [result |-> getDropSpeed(state.level)]
    /\ Logged("getDropSpeed")

SpeedNext == GetDropSpeed

SpeedSpec == SpeedInit /\ [][SpeedNext]_vars

\* C23: getDropSpeed(level) is 1000 - 100 * (level - 1) down to the floor of
\* 100 that it reaches at level 10: 1 -> 1000, 5 -> 600, 10 -> 100,
\* 15 -> 100; it never grows with the level and stays within [100, 1000].
C23_DropSpeed ==
    action = "getDropSpeed" =>
        LET level == prev.level
            speed == state.result
        IN  /\ level <= 10 => speed = 1100 - 100 * level
            /\ level >= 10 => speed = 100
            /\ level = 1 => speed = 1000
            /\ level = 5 => speed = 600
            /\ level = 15 => speed = 100
            /\ speed \in 100..1000
            /\ speed >= getDropSpeed(level + 1)
            /\ level > 1 => speed <= getDropSpeed(level - 1)

\* The floor clamps: at level 15 the unclamped value would be negative.
C23_Witness ==
    /\ action = "getDropSpeed"
    /\ prev.level = 15
    /\ state.result = 100

(***************************************************************************)
(* rotateTetromino alone                                                   *)
(***************************************************************************)
RotateInit ==
    /\ state \in {[randomTetromino(type) EXCEPT
                      !.shape = Turned(randomTetromino(type), turns),
                      !.rotation = turns,
                      !.position.x = @ + dx,
                      !.position.y = @ + dy] :
                        type \in TetrominoTypes, turns \in 0..3,
                        dx \in 0..MaxShift, dy \in 0..MaxShift}
    /\ prev = state
    /\ action = "INIT"
    /\ before = [state |-> state, action |-> "INIT"]
    /\ steps = 0

\* rotateTetromino(tetromino)
RotateTetromino ==
    /\ action = "INIT"
    /\ state' = [result |-> rotateTetromino(state)]
    /\ Logged("rotateTetromino")

RotateNext == RotateTetromino

RotateSpec == RotateInit /\ [][RotateNext]_vars

Ones(shape) ==
    {<<r, c>> \in (1..Len(shape)) \X (1..Len(shape)) : shape[r][c] = 1}

\* C24: for a piece other than O with an n x n shape, rotateTetromino
\* returns the n x n matrix whose cell (col, n-1-row) is the input's cell
\* (row, col); the base I becomes a bar in column 2, the base T becomes
\* [[0,1,0],[0,1,1],[0,1,0]]; for O the result equals the input shape; the
\* number of occupied cells is preserved.
C24_Clockwise ==
    action = "rotateTetromino" =>
        LET shape   == prev.shape
            n       == Len(shape)
            rotated == state.result
        IN  /\ prev.type = "O" => rotated = shape
            /\ prev.type # "O" =>
                   /\ Len(rotated) = n
                   /\ \A row \in 0..(n - 1) :
                          /\ Len(rotated[row + 1]) = n
                          /\ \A col \in 0..(n - 1) :
                                 rotated[col + 1][(n - 1 - row) + 1] = shape[row + 1][col + 1]
            /\ (prev.type = "I" /\ prev.rotation = 0) =>
                   rotated = << <<0, 0, 1, 0>>, <<0, 0, 1, 0>>,
                                <<0, 0, 1, 0>>, <<0, 0, 1, 0>> >>
            /\ (prev.type = "T" /\ prev.rotation = 0) =>
                   rotated = << <<0, 1, 0>>, <<0, 1, 1>>, <<0, 1, 0>> >>
            /\ Cardinality(Ones(rotated)) = Cardinality(Ones(shape))

\* The base T of the rotation test is turned.
C24_Witness ==
    /\ action = "rotateTetromino"
    /\ prev = randomTetromino("T")
    /\ state.result = << <<0, 1, 0>>, <<0, 1, 1>>, <<0, 1, 0>> >>

(***************************************************************************)
(* calculateShadowPosition alone                                           *)
(***************************************************************************)
\* The game states the projector is applied to: an initial state s of the
\* game, s after one more action, and s without an active piece.
ShadowStates(s) ==
    {s, [s EXCEPT !.currentPiece = NullPiece]}
    \cup {gameReducer(s, a, rnd) :
             a \in {"MOVE_LEFT", "MOVE_RIGHT", "MOVE_DOWN", "ROTATE", "HARD_DROP"},
             rnd \in OneDraw}

ShadowInit ==
    /\ \E s \in InitStates :
           state \in {[game |-> g, result |-> NullPiece] : g \in ShadowStates(s)}
    /\ prev = state
    /\ action = "INIT"
    /\ before = [state |-> state, action |-> "INIT"]
    /\ steps = 0

\* calculateShadowPosition(state), called once and once more.
CalculateShadowPosition ==
    /\ steps < 2
    /\ state' = [game |-> state.game, result |-> calculateShadowPosition(state.game)]
    /\ Logged("calculateShadowPosition")

ShadowNext == CalculateShadowPosition

ShadowSpec == ShadowInit /\ [][ShadowNext]_vars

\* C22: calculateShadowPosition returns null when there is no active piece;
\* otherwise a piece with the active piece's type, shape, rotation and x,
\* whose y is the greatest y >= the current y reached by descending through
\* valid positions: one row lower is invalid, and y is greater than the
\* current y when the row below is free.  The state is left as it was and a
\* second call returns an equal result.
C22_Shadow ==
    action = "calculateShadowPosition" =>
        LET s      == prev.game
            shadow == state.result
        IN  /\ IsNull(s.currentPiece) => shadow = NullPiece
            /\ ~ IsNull(s.currentPiece) =>
                   /\ shadow.type = s.currentPiece.type
                   /\ shadow.shape = s.currentPiece.shape
                   /\ shadow.rotation = s.currentPiece.rotation
                   /\ shadow.position.x = PieceX(s)
                   /\ shadow.position.y >= PieceY(s)
                   /\ \A y \in (PieceY(s) + 1)..shadow.position.y : Fits(s, PieceX(s), y)
                   /\ ~ Fits(s, PieceX(s), shadow.position.y + 1)
                   /\ Fits(s, PieceX(s), PieceY(s) + 1) => shadow.position.y > PieceY(s)
            /\ state.game = s
            /\ before.action = "calculateShadowPosition" => state.result = prev.result

\* A piece at its spawn row above a stack: the shadow is several rows lower,
\* above the floor, and a second call returns it again.
C22_Witness ==
    /\ action = "calculateShadowPosition"
    /\ before.action = "calculateShadowPosition"
    /\ ~ IsNull(state.game.currentPiece)
    /\ state.result.position.y > PieceY(state.game) + 1
    /\ state.result.position.y + Len(state.result.shape) < BOARD_HEIGHT
    /\ state.result = prev.result

(***************************************************************************)
(* lockPieceAndContinue alone                                              *)
(***************************************************************************)
\* An initial state s of the game with the active piece lifted to the rows
\* -MaxOutside..1, in its column.
LockStates(s) ==
    {[s EXCEPT !.currentPiece.position.y = y] : y \in (-MaxOutside)..1}

LockInit ==
    /\ \E s \in InitStates : state \in LockStates(s)
    /\ prev = state
    /\ action = "INIT"
    /\ before = [state |-> state, action |-> "INIT"]
    /\ steps = 0

\* lockPieceAndContinue(state)
LockPieceAndContinue ==
    /\ action = "INIT"
    /\ \E rnd \in OneDraw : state' = lockPieceAndContinue(state, rnd)
    /\ Logged("lockPieceAndContinue")

LockNext == LockPieceAndContinue

LockSpec == LockInit /\ [][LockNext]_vars

AboveBoard(piece) ==
    \E r \in 1..Len(piece.shape) : \E c \in 1..Len(piece.shape[r]) :
        piece.shape[r][c] = 1 /\ piece.position.y + (r - 1) < 0

\* C29: when a piece is locked while one of its occupied cells has board
\* row < 0, the result differs from the input only in gameOver = true: the
\* board is not stamped, no line is cleared, score, lines and level are
\* unchanged, and currentPiece, nextPiece and nextPieces are not advanced.
C29_LockAboveBoard ==
    (action = "lockPieceAndContinue" /\ AboveBoard(prev.currentPiece)) =>
        /\ state = [prev EXCEPT !.gameOver = TRUE]
        /\ state.gameOver
        /\ state.board = prev.board
        /\ state.score = prev.score
        /\ state.lines = prev.lines
        /\ state.level = prev.level
        /\ state.currentPiece = prev.currentPiece
        /\ state.nextPiece = prev.nextPiece
        /\ state.nextPieces = prev.nextPieces

\* A T at row -1 has its top cell above the board and its three other cells
\* in row 0; locking it ends the game and leaves row 0 as it was.
C29_Witness ==
    /\ action = "lockPieceAndContinue"
    /\ prev.currentPiece.type = "T"
    /\ prev.currentPiece.position.y = -1
    /\ AboveBoard(prev.currentPiece)
    /\ ~ prev.gameOver
    /\ state.gameOver
    /\ state.board = prev.board
    /\ state.currentPiece = prev.currentPiece

(***************************************************************************)
(* App.svelte: the driver around the reducer                               *)
(***************************************************************************)
\* An interval handle that is null.
NullInterval == 0

\* window.setInterval: the callback is registered under the next handle.
setInterval(app, callback) ==
    [app EXCEPT !.intervals = @ \cup {[id |-> app.nextId, callback |-> callback]},
                !.nextId    = @ + 1]

\* window.clearInterval
clearInterval(app, id) ==
    [app EXCEPT !.intervals = {i \in @ : i.id # id}]

startGameLoop_always(app) ==
    [setInterval(app, "gameLoop") EXCEPT !.gameLoopInterval = app.nextId]

startGameLoop(app) ==
    IF app.gameLoopInterval # NullInterval THEN app
    ELSE [setInterval(app, "gameLoop") EXCEPT !.gameLoopInterval = app.nextId]

stopGameLoop(app) ==
    IF app.gameLoopInterval # NullInterval
    THEN [clearInterval(app, app.gameLoopInterval) EXCEPT !.gameLoopInterval = NullInterval]
    ELSE app

stopGameTimer(app) ==
    IF app.gameTimerInterval # NullInterval
    THEN [clearInterval(app, app.gameTimerInterval) EXCEPT !.gameTimerInterval = NullInterval]
    ELSE app

startGameTimer(app) ==
    LET stopped == stopGameTimer([app EXCEPT !.gameTime = 0])
    IN  [setInterval(stopped, "gameTimer") EXCEPT !.gameTimerInterval = stopped.nextId]

\* The steps of dispatch after the reducer has run; vibrate and submitScore
\* act on the Telegram client only.
\* if (!wasGameOver && gameState.gameOver)
gameJustEnded(wasGameOver, app) ==
    IF ~ wasGameOver /\ app.gameState.gameOver
    THEN stopGameTimer(stopGameLoop(app))
    ELSE app

\* if (action.type === "GAME_OVER")
explicitGameOver(type, app) ==
    IF type = "GAME_OVER" THEN stopGameTimer(stopGameLoop(app)) ELSE app

\* if (action.type === "PAUSE_GAME") ... else if (action.type === "RESUME_GAME")
pauseOrResume(type, app) ==
    IF type = "PAUSE_GAME" THEN stopGameTimer(stopGameLoop(app))
    ELSE IF type = "RESUME_GAME" THEN startGameTimer(startGameLoop(app))
    ELSE app

\* dispatch without the check of the transition to game over
dispatch_onlyExplicitGameOver(app, type, rnd) ==
    pauseOrResume(type, explicitGameOver(type,
        [app EXCEPT !.gameState = gameReducer(app.gameState, type, rnd)]))

\* dispatch(action)
dispatch(app, type, rnd) ==
    pauseOrResume(type, explicitGameOver(type, gameJustEnded(app.gameState.gameOver,
        [app EXCEPT !.gameState = gameReducer(app.gameState, type, rnd)])))

newGame(app, rnd) ==
    startGameTimer(startGameLoop(dispatch(app, "NEW_GAME", rnd)))

startGame(app, rnd) ==
    startGameTimer(newGame([app EXCEPT !.currentView = "game"], rnd))

\* The component after its script has run and onMount has started the loop.
Mounted(rnd) ==
    startGameLoop([gameState         |-> initGameState(rnd),
                   currentView       |-> "welcome",
                   gameTime          |-> 0,
                   gameTimerInterval |-> NullInterval,
                   gameLoopInterval  |-> NullInterval,
                   intervals         |-> {},
                   nextId            |-> 1,
                   isTouching        |-> FALSE])

\* The app after PLAY, when the game has got to the state s and the timer
\* has counted to gameTime.
Running(s, gameTime) ==
    [startGame(Mounted(NoDraw), NoDraw) EXCEPT !.gameState = s, !.gameTime = gameTime]

GameActions ==
    {"NEW_GAME", "PAUSE_GAME", "RESUME_GAME", "MOVE_LEFT", "MOVE_RIGHT",
     "MOVE_DOWN", "ROTATE", "HARD_DROP", "TICK", "GAME_OVER", "NEW_PIECE", "HOLD"}

\* dispatch is applied to the app on the welcome view, in a running game and
\* in a paused game, the game being in the state s.
DispatchStates(s) ==
    {[Mounted(NoDraw) EXCEPT !.gameState = s]}
    \cup {Running(s, 2)}
    \cup {dispatch(app, "PAUSE_GAME", NoDraw) : app \in {Running(s, 2)}}

DispatchInit ==
    /\ \E s \in InitStates : state \in DispatchStates(s)
    /\ prev = state
    /\ action = "INIT"
    /\ before = [state |-> state, action |-> "INIT"]
    /\ steps = 0

\* dispatch(action)
Dispatch ==
    \E type \in GameActions : \E rnd \in OneDraw :
        /\ action = "INIT"
        /\ state' = dispatch(state, type, IF type = "NEW_GAME" THEN NoDraw ELSE rnd)
        /\ Logged(type)

DispatchNext == Dispatch

DispatchSpec == DispatchInit /\ [][DispatchNext]_vars

\* C25: when a dispatched action turns gameState.gameOver from false to
\* true, the game timer interval and the gravity loop interval are both
\* stopped when dispatch returns: both handles are null and no interval
\* callback is left registered.
C25_StopsOnGameOver ==
    (action # "INIT" /\ ~ prev.gameState.gameOver /\ state.gameState.gameOver) =>
        /\ state.gameTimerInterval = NullInterval
        /\ state.gameLoopInterval = NullInterval
        /\ state.intervals = {}

\* A TICK locks a piece that tops out while the loop and the timer run.
C25_Witness ==
    /\ action = "TICK"
    /\ ~ prev.gameState.gameOver
    /\ prev.gameTimerInterval # NullInterval
    /\ prev.gameLoopInterval # NullInterval
    /\ Cardinality(prev.intervals) = 2
    /\ state.gameState.gameOver
    /\ state.gameState.board # prev.gameState.board
    /\ state.intervals = {}

(***************************************************************************)
(* Invariants of the reachable game states                                 *)
(***************************************************************************)
\* C34: in every reachable state with gameOver = false, row 0 of the board
\* is entirely empty.
C34_TopRowEmpty ==
    ~ state.gameOver => state.board[1] = EmptyRow

\* A piece is locked with cells in row 0, the lock clears a row below, and
\* the game goes on with row 0 empty.
C34_Witness ==
    /\ Locked
    /\ \E x \in 0..(BOARD_WIDTH - 1) : Covers(prev.currentPiece, 0, x)
    /\ state.lines > prev.lines
    /\ ~ state.gameOver
    /\ state.board[1] = EmptyRow

\* C35: in every reachable state no row of the board is complete.
C35_NoCompleteRow ==
    \A y \in 1..BOARD_HEIGHT : \E x \in 1..BOARD_WIDTH : state.board[y][x] = "empty"

\* A lock completes two rows at once, and none is left on the board.
C35_Witness ==
    /\ Locked
    /\ state.lines = prev.lines + 2
    /\ \A y \in 1..BOARD_HEIGHT : \E x \in 1..BOARD_WIDTH : state.board[y][x] = "empty"

\* C37: no reachable state has isPaused = true and gameOver = true.
C37_NotPausedAndOver ==
    ~ (state.isPaused /\ state.gameOver)

\* PAUSE_GAME is dispatched to a game that a lock has just ended.
C37_Witness ==
    /\ action = "PAUSE_GAME"
    /\ before.action \in {"MOVE_DOWN", "TICK", "HARD_DROP"}
    /\ ~ before.state.gameOver
    /\ prev.gameOver
    /\ state.gameOver
    /\ ~ state.isPaused

\* C38: an action other than NEW_GAME never lowers score or lines; score,
\* lines and level change only in a lock that clears at least one row; HOLD,
\* NEW_PIECE, moves, rotations, pause and resume leave them unchanged.
C38_ScoreMonotone ==
    (action # "INIT" /\ action # "NEW_GAME") =>
        /\ state.score >= prev.score
        /\ state.lines >= prev.lines
        /\ ( \/ state.score # prev.score
             \/ state.lines # prev.lines
             \/ state.level # prev.level ) =>
               (Locked /\ state.lines > prev.lines /\ state.score > prev.score)
        /\ (action \in {"HOLD", "NEW_PIECE", "MOVE_LEFT", "MOVE_RIGHT", "ROTATE",
                         "PAUSE_GAME", "RESUME_GAME", "GAME_OVER"}) =>
               /\ state.score = prev.score
               /\ state.lines = prev.lines
               /\ state.level = prev.level

\* After an action that changed the state but not the score, a lock clears
\* rows and raises score and lines.
C38_Witness ==
    /\ Locked
    /\ before.action \notin {"INIT", "NEW_GAME"}
    /\ before.state # prev
    /\ before.state.score = prev.score
    /\ state.lines > prev.lines
    /\ state.score > prev.score

(***************************************************************************)
(* Rotations in a row                                                      *)
(***************************************************************************)
\* An initial state s of the game, and s after one more action.
TurnStates(s) ==
    {s} \cup {gameReducer(s, a, rnd) :
                a \in {"MOVE_LEFT", "MOVE_RIGHT", "MOVE_DOWN", "HARD_DROP",
                       "HOLD", "NEW_PIECE"},
                rnd \in OneDraw}

TurnInit ==
    /\ \E s \in InitStates : state \in TurnStates(s)
    /\ prev = state
    /\ action = "INIT"
    /\ before = [state |-> state, action |-> "INIT"]
    /\ steps = 0

\* ROTATE is dispatched; steps counts the rotations that took effect, and
\* before keeps the state the rotations started from.
Turn ==
    /\ steps < MaxTurns
    /\ state' = gameReducer(state, "ROTATE", NoDraw)
    /\ prev' = state
    /\ action' = "ROTATE"
    /\ before' = before
    /\ steps' = IF state' # state THEN steps + 1 ELSE steps

TurnNext == Turn

TurnSpec == TurnInit /\ [][TurnNext]_vars

\* A quarter turn clockwise of a square matrix.
Clockwise(shape) ==
    LET n == Len(shape)
    IN  Array([r \in 1..n |-> Array([c \in 1..n |-> shape[n - c + 1][r]], n)], n)

RECURSIVE TurnedBy(_, _)
TurnedBy(shape, turns) ==
    IF turns = 0 THEN shape ELSE TurnedBy(Clockwise(shape), turns - 1)

\* C36: the active piece's shape is the catalog shape of its type turned
\* clockwise `rotation` times, rotation is in 0..3 and the piece has 4
\* occupied cells; four ROTATEs that took effect give back the shape and the
\* rotation they started from.
C36_ShapeMatchesRotation ==
    LET piece == state.currentPiece
    IN  /\ piece.rotation \in 0..3
        /\ piece.shape = TurnedBy(TETROMINOS(piece.type), piece.rotation)
        /\ Cardinality(Ones(piece.shape)) = 4
        /\ steps = 4 =>
               /\ piece.shape = before.state.currentPiece.shape
               /\ piece.rotation = before.state.currentPiece.rotation

\* A T with room around it is turned four times and is as it was, in the
\* same place.
C36_Witness ==
    /\ steps = 4
    /\ state.currentPiece.type = "T"
    /\ state.currentPiece = before.state.currentPiece
    /\ prev.currentPiece.shape # state.currentPiece.shape
    /\ prev.currentPiece.rotation = (state.currentPiece.rotation + 3) % 4

(***************************************************************************)
(* HARD_DROP beside MOVE_DOWN repeated                                     *)
(***************************************************************************)
\* MOVE_DOWN is dispatched to s until one of them does not move the piece a
\* row down but locks it; Math.random draws rnd in that one.
RECURSIVE MoveDownUntilLock(_, _)
MoveDownUntilLock(s, rnd) ==
    LET next == gameReducer(s, "MOVE_DOWN", rnd)
    IN  IF /\ next.board = s.board
           /\ next.currentPiece = [s.currentPiece EXCEPT !.position.y = @ + 1]
        THEN MoveDownUntilLock(next, rnd)
        ELSE next

\* An initial state s of the game, and s after one more action.
DropStates(s) ==
    {s} \cup {gameReducer(s, a, NoDraw) :
                a \in {"MOVE_LEFT", "MOVE_RIGHT", "MOVE_DOWN", "ROTATE",
                       "HOLD", "NEW_PIECE", "HARD_DROP"}}

DropInit ==
    /\ \E s \in InitStates :
           state \in {[game |-> g] : g \in {d \in DropStates(s) : Playing(d)}}
    /\ prev = state
    /\ action = "INIT"
    /\ before = [state |-> state, action |-> "INIT"]
    /\ steps = 0

\* The game is continued once by HARD_DROP and once by MOVE_DOWNs, with the
\* same draw of Math.random, and the shadow of the starting state is taken.
DropBothWays ==
    \E rnd \in OneDraw :
        /\ action = "INIT"
        /\ state' = [hardDrop  |-> gameReducer(state.game, "HARD_DROP", rnd),
                     moveDowns |-> MoveDownUntilLock(state.game, rnd),
                     shadow    |-> calculateShadowPosition(state.game)]
        /\ Logged("HARD_DROP")

DropNext == DropBothWays

DropSpec == DropInit /\ [][DropNext]_vars

\* C33: from a state that is neither paused nor over, with the same piece
\* drawn, HARD_DROP and MOVE_DOWN repeated up to the first lock give the
\* same board, score, lines, level, gameOver, current piece, nextPiece and
\* nextPieces; the cells stamped are those of calculateShadowPosition of
\* the starting state.
C33_HardDropIsMoveDowns ==
    action = "HARD_DROP" =>
        LET game   == prev.game
            drop   == state.hardDrop
            downs  == state.moveDowns
            shadow == state.shadow
        IN  /\ drop.board = downs.board
            /\ drop.score = downs.score
            /\ drop.lines = downs.lines
            /\ drop.level = downs.level
            /\ drop.gameOver = downs.gameOver
            /\ drop.currentPiece = downs.currentPiece
            /\ drop.nextPiece = downs.nextPiece
            /\ drop.nextPieces = downs.nextPieces
            /\ drop = downs
            /\ drop.lines = game.lines =>
                   \A y \in 0..(BOARD_HEIGHT - 1) : \A x \in 0..(BOARD_WIDTH - 1) :
                       drop.board[y + 1][x + 1] =
                           IF Covers(shadow, y, x) THEN shadow.type
                           ELSE game.board[y + 1][x + 1]
            /\ drop = lockPieceAndContinue([game EXCEPT !.currentPiece = shadow],
                                           <<drop.nextPieces[3].type>>)

\* A piece several rows above its resting place is dropped both ways.
C33_Witness ==
    /\ action = "HARD_DROP"
    /\ state.shadow.position.y > PieceY(prev.game) + 2
    /\ state.hardDrop = state.moveDowns
    /\ state.hardDrop.board # prev.game.board
    /\ ~ state.hardDrop.gameOver

(***************************************************************************)
(* A game under gravity alone                                              *)
(***************************************************************************)
\* A new game in which Math.random draws the same type every time.
TickInit ==
    /\ \E type \in TetrominoTypes :
           state = initGameState(<<type, type, type, type, type>>)
    /\ prev = state
    /\ action = "INIT"
    /\ before = [state |-> state, action |-> "INIT"]
    /\ steps = 0

\* The gravity loop dispatches TICK; the piece a lock draws is of the type
\* of the game.  steps is the parity of the number of TICKs dispatched, so
\* that a TICK which returns the state it was given is still a step.
GravityTick ==
    /\ state' = gameReducer(state, "TICK", <<state.nextPieces[3].type>>)
    /\ prev' = state
    /\ action' = "TICK"
    /\ before' = [state |-> prev, action |-> action]
    /\ steps' = (steps + 1) % 2

TickNext == GravityTick

\* The interval of startGameLoop keeps dispatching TICK.
TickSpec == TickInit /\ [][TickNext]_vars /\ WF_vars(GravityTick)

\* C31: in every reachable state with gameOver = false the active piece is
\* at a valid position: each occupied cell is inside the board and on an
\* empty cell.
C31_ActivePieceValid ==
    ~ state.gameOver => Fits(state, PieceX(state), PieceY(state))

\* C32: under TICKs alone gameOver eventually becomes true.
C32_GameEnds == <>(state.gameOver)

(***************************************************************************)
(* App.svelte: the handlers and the interval callbacks                     *)
(***************************************************************************)
holdPiece(app, rnd) ==
    IF ~ IsNull(app.gameState.currentPiece) /\ ~ app.gameState.gameOver
    THEN dispatch(app, "HOLD", rnd)
    ELSE app

togglePause(app) ==
    dispatch(app, IF app.gameState.isPaused THEN "RESUME_GAME" ELSE "PAUSE_GAME", NoDraw)

Keys == {"ArrowLeft", "ArrowRight", "ArrowDown", "ArrowUp", " ", "c", "C", "p", "r", "x"}

\* The action type of the arrow keys, which dispatch one action.
KeyAction ==
    [ArrowLeft |-> "MOVE_LEFT", ArrowRight |-> "MOVE_RIGHT",
     ArrowDown |-> "MOVE_DOWN", ArrowUp |-> "ROTATE"]

handleKeydown(app, key, rnd) ==
    IF app.gameState.gameOver THEN app
    ELSE CASE key \in DOMAIN KeyAction -> dispatch(app, KeyAction[key], rnd)
           [] key = " "          -> dispatch(app, "HARD_DROP", rnd)
           [] key \in {"c", "C"} -> holdPiece(app, rnd)
           [] key = "p"          -> togglePause(app)
           [] key = "r"          -> startGameLoop(dispatch(app, "NEW_GAME", rnd))
           [] OTHER              -> app

handleTouchStart(app) ==
    IF app.gameState.gameOver THEN app ELSE [app EXCEPT !.isTouching = TRUE]

Swipes == {"right", "left", "down", "up", "short"}

\* The action type of a swipe longer than the threshold of 30.
SwipeAction ==
    [right |-> "MOVE_RIGHT", left |-> "MOVE_LEFT", down |-> "MOVE_DOWN", up |-> "ROTATE"]

\* The swipe is what the deltas against the threshold come to.
handleTouchMove(app, swipe, rnd) ==
    IF ~ app.isTouching \/ app.gameState.gameOver THEN app
    ELSE IF swipe \in DOMAIN SwipeAction THEN dispatch(app, SwipeAction[swipe], rnd)
    ELSE app

handleTouchEnd(app) == [app EXCEPT !.isTouching = FALSE]

handleDoubleTap(app, rnd) ==
    IF app.gameState.gameOver
    THEN startGameLoop(dispatch(app, "NEW_GAME", rnd))
    ELSE dispatch(app, "HARD_DROP", rnd)

showSettings(app) == [app EXCEPT !.currentView = "settings"]

goToWelcome(app) ==
    stopGameTimer(stopGameLoop([app EXCEPT !.currentView = "welcome"]))

\* The app in which the events arrive: just mounted, on the welcome view
\* with the game in the state s, in a running game and in a paused game.
AppStates(s) ==
    {Mounted(NoDraw), [Mounted(NoDraw) EXCEPT !.gameState = s]}
    \cup {Running(s, 2)}
    \cup {dispatch(app, "PAUSE_GAME", NoDraw) : app \in {Running(s, 2)}}

AppInit ==
    /\ \E s \in {TSpawned, OneLinePending, TopOutPending, SwapBlockedPending} :
           state \in AppStates(s)
    /\ prev = state
    /\ action = "INIT"
    /\ before = [state |-> state, action |-> "INIT"]
    /\ steps = 0

InGameView(app) == app.currentView \notin {"welcome", "settings"}

HandleKeydown ==
    \E key \in Keys : \E rnd \in RandomDraws :
        /\ steps < MaxEvents
        /\ state' = handleKeydown(state, key, rnd)
        /\ Logged(key)

HandleTouchStart ==
    /\ steps < MaxEvents
    /\ state' = handleTouchStart(state)
    /\ Logged("handleTouchStart")

HandleTouchMove ==
    \E swipe \in Swipes : \E rnd \in OneDraw :
        /\ steps < MaxEvents
        /\ state' = handleTouchMove(state, swipe, rnd)
        /\ Logged("handleTouchMove")

HandleTouchEnd ==
    /\ steps < MaxEvents
    /\ state' = handleTouchEnd(state)
    /\ Logged("handleTouchEnd")

HandleDoubleTap ==
    \E rnd \in RandomDraws :
        /\ steps < MaxEvents
        /\ state' = handleDoubleTap(state, rnd)
        /\ Logged("handleDoubleTap")

HandleLeftButton ==
    /\ steps < MaxEvents
    /\ InGameView(state)
    /\ state' = dispatch(state, "MOVE_LEFT", NoDraw)
    /\ Logged("handleLeftButton")

HandleRightButton ==
    /\ steps < MaxEvents
    /\ InGameView(state)
    /\ state' = dispatch(state, "MOVE_RIGHT", NoDraw)
    /\ Logged("handleRightButton")

HandleDownButton ==
    \E rnd \in OneDraw :
        /\ steps < MaxEvents
        /\ InGameView(state)
        /\ state' = dispatch(state, "MOVE_DOWN", rnd)
        /\ Logged("handleDownButton")

HandleRotateButton ==
    /\ steps < MaxEvents
    /\ InGameView(state)
    /\ state' = dispatch(state, "ROTATE", NoDraw)
    /\ Logged("handleRotateButton")

HandleDropButton ==
    \E rnd \in OneDraw :
        /\ steps < MaxEvents
        /\ InGameView(state)
        /\ state' = dispatch(state, "HARD_DROP", rnd)
        /\ Logged("handleDropButton")

TogglePause ==
    /\ steps < MaxEvents
    /\ InGameView(state)
    /\ state' = togglePause(state)
    /\ Logged("togglePause")

BackButtonClicked ==
    /\ steps < MaxEvents
    /\ state' = togglePause(state)
    /\ Logged("backButtonClicked")

NewGameButton ==
    \E rnd \in RandomDraws :
        /\ steps < MaxEvents
        /\ InGameView(state)
        /\ state' = newGame(state, rnd)
        /\ Logged("newGame")

StartGame ==
    \E rnd \in RandomDraws :
        /\ steps < MaxEvents
        /\ state.currentView = "welcome"
        /\ state' = startGame(state, rnd)
        /\ Logged("startGame")

ShowSettings ==
    /\ steps < MaxEvents
    /\ state.currentView = "welcome"
    /\ state' = showSettings(state)
    /\ Logged("showSettings")

GoToWelcome ==
    /\ steps < MaxEvents
    /\ state.currentView = "settings"
    /\ state' = goToWelcome(state)
    /\ Logged("goToWelcome")

\* A registered gravity callback runs when more than getDropSpeed(level)
\* ms have passed since the last drop, and dispatches TICK.
GameLoopCallback ==
    \E rnd \in OneDraw :
        /\ steps < MaxEvents
        /\ \E i \in state.intervals : i.callback = "gameLoop"
        /\ state' = dispatch(state, "TICK", rnd)
        /\ Logged("gameLoop")

\* A registered timer callback runs: gameTime++.
GameTimerCallback ==
    /\ steps < MaxEvents
    /\ state.gameTime < MaxTime
    /\ \E i \in state.intervals : i.callback = "gameTimer"
    /\ state' = [state EXCEPT !.gameTime = @ + 1]
    /\ Logged("gameTimer")

AppNext ==
    \/ HandleKeydown
    \/ HandleTouchStart
    \/ HandleTouchMove
    \/ HandleTouchEnd
    \/ HandleDoubleTap
    \/ HandleLeftButton
    \/ HandleRightButton
    \/ HandleDownButton
    \/ HandleRotateButton
    \/ HandleDropButton
    \/ TogglePause
    \/ BackButtonClicked
    \/ NewGameButton
    \/ StartGame
    \/ ShowSettings
    \/ GoToWelcome
    \/ GameLoopCallback
    \/ GameTimerCallback

AppSpec == AppInit /\ [][AppNext]_vars

LoopIntervals(app) == {i \in app.intervals : i.callback = "gameLoop"}

\* C39: after any interleaving of UI events and interval callbacks, no
\* gravity interval is registered while gameState.isPaused or
\* gameState.gameOver is true, so no TICK is dispatched to a paused or
\* finished game; and at most one gravity interval is registered.
C39_LoopStopped ==
    /\ Cardinality(LoopIntervals(state)) <= 1
    /\ (state.gameState.isPaused \/ state.gameState.gameOver) =>
           /\ LoopIntervals(state) = {}
           /\ state.gameLoopInterval = NullInterval
    /\ action = "gameLoop" =>
           (~ prev.gameState.isPaused /\ ~ prev.gameState.gameOver)

\* After another event, the gravity callback dispatches the TICK that ends
\* the game, and no gravity interval is left.
C39_Witness ==
    /\ action = "gameLoop"
    /\ before.action # "INIT"
    /\ LoopIntervals(prev) # {}
    /\ ~ prev.gameState.gameOver
    /\ state.gameState.gameOver
    /\ LoopIntervals(state) = {}

\* C40: resuming a paused game leaves gameTime at the value it had when the
\* game was paused.
C40_PauseKeepsTime ==
    ( /\ action \in {"p", "togglePause", "backButtonClicked"}
      /\ prev.gameState.isPaused
      /\ ~ state.gameState.isPaused ) =>
        state.gameTime = prev.gameTime

====
